---- MODULE Spec2Model ----
(***************************************************************************)
(* ModgovClient (modgov-client.ts): the per-domain rate limiter, the       *)
(* client operations and the XML response normalizers, as a state machine. *)
(*                                                                         *)
(* Time.  clock is the value Date.now() returns.  JavaScript runs one      *)
(* task at a time, so every action below is one run-to-completion step of  *)
(* the event loop (the synchronous part of a call up to its first pending  *)
(* await, a timer callback, the arrival of a transport response) and the   *)
(* clock advances between steps (Tick).  A timer set for waitTime ms runs  *)
(* its callback at or after its deadline, never before.                    *)
(*                                                                         *)
(* Strings.  A site URL and a response body are sequences of lexical       *)
(* tokens; the string tests of the code (startsWith, includes, trim) are   *)
(* computed on the tokens.                                                 *)
(***************************************************************************)
EXTENDS Integers, Sequences, FiniteSets, TLC

VARIABLES
    clock,        \* Date.now()
    rateLimiter,  \* ModgovClient.rateLimiter: Map<string, number>
    pc,           \* per call: where the async operation is suspended
    call,         \* per call: arguments and locals of the operation
    requests,     \* per call: the transport requests it has issued (axios.get)
    parserCalls,  \* per call: how often a normalizer routine was invoked
    result,       \* per call: what the operation's promise settled to
    parseIn,      \* a normalizer routine applied on its own: routine and body
    parseOut,     \* ... and what it returned or threw
    buildIn,      \* the request of an operation built on its own: its arguments
    buildOut,     \* ... and the endpoint and date parameters of the request
    matchIn,      \* a CouncilMatcher method applied on its own: its arguments
    matchOut      \* ... and what it returned

vars == <<clock, rateLimiter, pc, call, requests, parserCalls, result, parseIn, parseOut,
          buildIn, buildOut, matchIn, matchOut>>

----------------------------------------------------------------------------
(* Bounds of the model. *)

\* concurrent calls in flight
NumCalls == 3
\* the clock advances in steps of Tick0 ms
Tick0 == 500
\* number of clock steps explored
MaxTicks == 3

\* Date.now() at the start: any instant at least rateLimitMs after the epoch,
\* so that a first request (lastRequest = 0) is never delayed.
StartTime == 2000

Calls == 1 .. NumCalls
MaxClock == StartTime + MaxTicks * Tick0

----------------------------------------------------------------------------
(* Site URLs, as token sequences: scheme, "://", host, then an optional    *)
(* port token and path tokens.                                             *)

Schemes == {"https", "http"}
PortTokens == {":8443"}

UrlA == <<"https", "://", "a.gov.uk">>
UrlAHttp == <<"http", "://", "a.gov.uk">>
UrlAPort == <<"https", "://", "a.gov.uk", ":8443">>
UrlB == <<"https", "://", "b.gov.uk">>
UrlNoScheme == <<"a.gov.uk">>

\* the site URLs of concurrent calls (valid ones: they reach the limiter),
\* and of one caller's calls
GateUrls == {UrlA, UrlAHttp, UrlB}
SiteUrls == {UrlA, UrlAPort, UrlNoScheme}

\* new URL(url) succeeds: an absolute URL with a scheme and a host
URLParses(url) ==
    /\ Len(url) >= 3
    /\ url[1] \in Schemes
    /\ url[2] = "://"
    /\ url[3] # ""

\* new URL(url).hostname: the host without scheme and port
hostname(url) == url[3]

\* new URL(url).origin: scheme, host and port
origin(url) ==
    <<url[1], url[3], IF Len(url) >= 4 /\ url[4] \in PortTokens THEN url[4] ELSE "">>

----------------------------------------------------------------------------
(* Response bodies, as token sequences.  A token is one lexical piece of   *)
(* the text: the XML declaration, a doctype, an opening tag <v>, a closing *)
(* tag </v>, an empty tag <v/>, character data v, or white space.          *)

Tok(t, v) == [t |-> t, v |-> v]
Decl == Tok("decl", "<?xml")
Doctype == Tok("doctype", "<!DOCTYPE")
DoctypeLower == Tok("doctype", "<!doctype")
Open(n) == Tok("open", n)
Close(n) == Tok("close", n)
Empty(n) == Tok("empty", n)
Text(s) == Tok("text", s)
Ws == Tok("ws", " ")

\* character data that holds the word Error
ErrorTexts == {"Error", "Server Error in Application"}

\* <n>s</n>
Leaf(n, s) == <<Open(n), Text(s), Close(n)>>
\* <n> inner </n>
Elem(n, inner) == <<Open(n)>> \o inner \o <<Close(n)>>

(* JavaScript values, tagged: a string, an object (its properties in       *)
(* insertion order), an array, undefined, null.                            *)
Str(s) == [k |-> "str", s |-> s, kids |-> <<>>]
Obj(props) == [k |-> "obj", s |-> "", kids |-> props]
Arr(items) == [k |-> "arr", s |-> "", kids |-> items]
Undef == [k |-> "undef", s |-> "", kids |-> <<>>]
Null == [k |-> "null", s |-> "", kids |-> <<>>]
Property(n, x) == [n |-> n, x |-> x]

\* !!v
Truthy(v) == v.k \in {"obj", "arr"} \/ (v.k = "str" /\ v.s # "")

\* v.n of a value that is not null or undefined: an object's own property,
\* undefined on a string or an array
Get(v, n) ==
    IF v.k = "obj" /\ \E i \in 1 .. Len(v.kids) : v.kids[i].n = n
    THEN v.kids[CHOOSE i \in 1 .. Len(v.kids) : v.kids[i].n = n].x
    ELSE Undef

\* v?.n
GetOpt(v, n) == IF v.k \in {"undef", "null"} THEN Undef ELSE Get(v, n)

\* a || b
Or(a, b) == IF Truthy(a) THEN a ELSE b

\* Array.isArray(v) ? v : [v]
AsArray(v) == IF v.k = "arr" THEN v.kids ELSE <<v>>

(* xml2js parseStringPromise(xml, {explicitArray: false, ignoreAttrs: true, *)
(* trim: true}) on a strict sax parser.  A frame of the stack is an open   *)
(* element: its name, its child properties so far and its text pieces.     *)

\* xml2js assignOrPush: a repeated child name turns the property into an array
assignOrPush(props, n, x) ==
    IF \E i \in 1 .. Len(props) : props[i].n = n
    THEN [i \in 1 .. Len(props) |->
            IF props[i].n = n
            THEN Property(n, Arr(AsArray(props[i].x) \o <<x>>))
            ELSE props[i]]
    ELSE Append(props, Property(n, x))

\* the value of a closed element: its trimmed text when it has no children
\* ('' when it has none), else an object of its children (text kept as _)
ElementValue(frame) ==
    IF frame.props = <<>>
    THEN Str(IF frame.text = <<>> THEN "" ELSE frame.text[1])
    ELSE Obj(IF frame.text = <<>> THEN frame.props
             ELSE Append(frame.props, Property("_", Str(frame.text[1]))))

ParseOk(v) == [ok |-> TRUE, val |-> v, why |-> ""]
ParseError(why) == [ok |-> FALSE, val |-> Undef, why |-> why]

RECURSIVE SaxWalk(_, _, _)
SaxWalk(toks, i, stack) ==
    IF i > Len(toks)
    THEN IF stack = <<>> THEN ParseOk(Null) ELSE ParseError("Unclosed root tag")
    ELSE
    LET tk == toks[i]
        depth == Len(stack)
        top == stack[depth]
        below == SubSeq(stack, 1, depth - 1)
        attach(n, x) ==
            Append(below, [top EXCEPT !.props = assignOrPush(top.props, n, x)])
    IN  CASE tk.t \in {"ws", "decl"} -> SaxWalk(toks, i + 1, stack)
          [] tk.t = "doctype" ->
                IF depth = 0 THEN SaxWalk(toks, i + 1, stack)
                ELSE ParseError("Inappropriately located doctype declaration")
          [] tk.t = "text" ->
                IF depth = 0 THEN ParseError("Non-whitespace before first tag")
                ELSE SaxWalk(toks, i + 1,
                             Append(below, [top EXCEPT !.text = Append(top.text, tk.v)]))
          [] tk.t = "open" ->
                SaxWalk(toks, i + 1, Append(stack, [name |-> tk.v, props |-> <<>>, text |-> <<>>]))
          [] tk.t = "empty" ->
                IF depth = 0 THEN ParseOk(Obj(<<Property(tk.v, Str(""))>>))
                ELSE SaxWalk(toks, i + 1, attach(tk.v, Str("")))
          [] tk.t = "close" ->
                IF depth = 0 \/ (depth > 0 /\ top.name # tk.v)
                THEN ParseError("Unexpected close tag")
                ELSE IF depth = 1
                THEN ParseOk(Obj(<<Property(top.name, ElementValue(top))>>))
                ELSE SaxWalk(toks, i + 1,
                             Append(SubSeq(stack, 1, depth - 2),
                                    [stack[depth - 1] EXCEPT
                                        !.props = assignOrPush(stack[depth - 1].props,
                                                               top.name, ElementValue(top))]))

parseStringPromise(xml) == SaxWalk(xml, 1, <<>>)

----------------------------------------------------------------------------
(* The response normalizers.  Each returns a sequence of records or throws *)
(* an Error; the fields of a record hold JavaScript values.                *)

NoError == [msg |-> <<>>, preview |-> <<>>]
Returned(v) == [ok |-> TRUE, value |-> v, error |-> NoError]
\* new Error(msg): preview is the excerpt of the body the message quotes
Thrown(msg, preview) ==
    [ok |-> FALSE, value |-> <<>>, error |-> [msg |-> msg, preview |-> preview]]

\* applying f to each element: items.map(f)
Map(items, f(_)) == [i \in 1 .. Len(items) |-> f(items[i])]

\* s.trim() === '' (or s is the empty string)
IsBlank(s) == \A i \in 1 .. Len(s) : s[i].t = "ws"

\* s.trim(): without its leading and trailing white space
trim(s) ==
    IF IsBlank(s) THEN <<>>
    ELSE LET first == CHOOSE i \in 1 .. Len(s) :
                        s[i].t # "ws" /\ \A j \in 1 .. i - 1 : s[j].t = "ws"
             last == CHOOSE i \in 1 .. Len(s) :
                        s[i].t # "ws" /\ \A j \in i + 1 .. Len(s) : s[j].t = "ws"
         IN  SubSeq(s, first, last)

\* s.startsWith(marker), for the markers the code tests
startsWith(s, marker) ==
    /\ s # <<>>
    /\ CASE marker = "<" -> s[1].t \in {"decl", "doctype", "open", "close", "empty"}
         [] marker = "<?xml" -> s[1].t = "decl"
         [] marker = "<!DOCTYPE" -> s[1].t = "doctype" /\ s[1].v = "<!DOCTYPE"
         [] marker = "<html" -> s[1].t \in {"open", "empty"} /\ s[1].v = "html"
         [] marker = "<HTML" -> s[1].t \in {"open", "empty"} /\ s[1].v = "HTML"

\* s.includes(word), for the words the code tests
includes(s, word) ==
    CASE word = "<title>" -> \E i \in 1 .. Len(s) : s[i] = Open("title")
      [] word = "Error" -> \E i \in 1 .. Len(s) : s[i].t = "text" /\ s[i].v \in ErrorTexts

\* s.substring(0, n), with n counted in tokens
substring(s, n) == SubSeq(s, 1, IF Len(s) < n THEN Len(s) ELSE n)

\* the catch block of a normalizer: whatever was thrown inside the try is
\* logged to the console and replaced by new Error(generic)
Catch(r, generic) == IF r.ok THEN r ELSE Thrown(<<generic>>, <<>>)

\* the start of every try block: parseStringPromise rejects, or yields null
\* and the first property read throws a TypeError
ThrownOrParsed(r) ==
    IF ~r.ok THEN Thrown(<<r.why>>, <<>>)
    ELSE IF r.val.k = "null" THEN Thrown(<<"TypeError: Cannot read properties of null">>, <<>>)
    ELSE Returned(<<r.val>>)

ParsedOrThrown(xmlData) == ThrownOrParsed(parseStringPromise(xmlData))

\* the rest of a try block: the records read from the parsed document
Then(p, records(_)) == IF ~p.ok THEN p ELSE Returned(records(p.value[1]))

WardRecord(ward) ==
    [wardtitle |-> Or(Get(ward, "wardtitle"), Str("")),
     councillorcount |-> Or(GetOpt(Get(ward, "councillors"), "councillorcount"), Str("0")),
     councillor |->
        LET c == GetOpt(Get(ward, "councillors"), "councillor")
        IN  IF c.k = "arr" THEN c.kids ELSE IF Truthy(c) THEN <<c>> ELSE <<>>]

WardsIn(rootElement) ==
    IF \/ ~Truthy(rootElement)
       \/ ~Truthy(Get(rootElement, "wards"))
       \/ ~Truthy(Get(Get(rootElement, "wards"), "ward"))
    THEN <<>>
    ELSE Map(AsArray(Get(Get(rootElement, "wards"), "ward")), WardRecord)

WardsOf(response) ==
    WardsIn(Or(Get(response, "councillorsbyward"),
               Or(Get(response, "councillorsbywardid"),
                  Get(response, "councillorsbypostcode"))))

parseCouncillorsTry(xmlData) == Then(ParsedOrThrown(xmlData), WardsOf)

parseCouncillorsResponse(xmlData) ==
    Catch(parseCouncillorsTry(xmlData), "Failed to parse API response")

CommitteeRecord(committee) ==
    [committeeid |-> Or(Get(committee, "committeeid"), Str("")),
     committeetitle |-> Or(Get(committee, "committeetitle"), Str("")),
     committeedescription |-> Or(Get(committee, "committeedescription"), Str("")),
     committeetype |-> Or(Get(committee, "committeetype"), Str(""))]

CommitteesIn(committeesElement) ==
    IF ~Truthy(committeesElement) \/ ~Truthy(Get(committeesElement, "committee"))
    THEN <<>>
    ELSE Map(AsArray(Get(committeesElement, "committee")), CommitteeRecord)

CommitteesOf(response) == CommitteesIn(Get(response, "committees"))

\* reading committeesElement.committee without the test for committeesElement
parseCommitteesTryUnguarded(xmlData) ==
    IF parseStringPromise(xmlData).ok /\ Get(parseStringPromise(xmlData).val, "committees").k = "undef"
    THEN Thrown(<<"TypeError: Cannot read properties of undefined">>, <<>>)
    ELSE Then(ParsedOrThrown(xmlData), CommitteesOf)

parseCommitteesTry(xmlData) == Then(ParsedOrThrown(xmlData), CommitteesOf)

parseCommitteesResponse(xmlData) ==
    Catch(parseCommitteesTry(xmlData), "Failed to parse committees response")

\* a meeting of the committee-nested shape takes its committee from the parent
MeetingRecord(meeting, committeeSource) ==
    [meetingid |-> Or(Get(meeting, "meetingid"), Str("")),
     meetingtitle |-> Or(Get(meeting, "meetingstatus"), Str("Council Meeting")),
     meetingdate |-> Or(Get(meeting, "meetingdate"), Str("")),
     meetingtime |-> Or(Get(meeting, "meetingtime"), Str("")),
     meetinglocation |-> Str(""),
     committeeid |-> Or(Get(committeeSource, "committeeid"), Str("")),
     committeetitle |-> Or(Get(committeeSource, "committeetitle"), Str(""))]

\* the three checks on the raw text, before the XML is parsed
IsEmptyResponse(xmlString) == xmlString = <<>> \/ IsBlank(xmlString)

\* the non-XML test with || for &&
IsNonXmlResponseEither(xmlString) ==
    ~startsWith(trim(xmlString), "<?xml") \/ ~startsWith(trim(xmlString), "<")

IsNonXmlResponse(xmlString) ==
    ~startsWith(trim(xmlString), "<?xml") /\ ~startsWith(trim(xmlString), "<")

\* the HTML test without the <title> and Error part
IsHtmlErrorPageMarkersOnly(xmlString) ==
    \/ startsWith(trim(xmlString), "<!DOCTYPE")
    \/ startsWith(trim(xmlString), "<html")
    \/ startsWith(trim(xmlString), "<HTML")

IsHtmlErrorPage(xmlString) ==
    \/ startsWith(trim(xmlString), "<!DOCTYPE")
    \/ startsWith(trim(xmlString), "<html")
    \/ startsWith(trim(xmlString), "<HTML")
    \/ (includes(xmlString, "<title>") /\ includes(xmlString, "Error"))

\* Structure 1a: the meetings nested in one committee
NestedMeetings(committee, committeeMeetings) ==
    IF ~Truthy(committeeMeetings) \/ ~Truthy(Get(committeeMeetings, "meeting"))
    THEN <<>>
    ELSE [i \in 1 .. Len(AsArray(Get(committeeMeetings, "meeting"))) |->
            MeetingRecord(AsArray(Get(committeeMeetings, "meeting"))[i], committee)]

SelfMeetingRecord(meeting) == MeetingRecord(meeting, meeting)

\* Structure 2: the flat list of getmeetingsbydate
FlatMeetings(getmeetingsbydate, meetingsContainer) ==
    IF Truthy(getmeetingsbydate) /\ Truthy(meetingsContainer)
    THEN IF ~Truthy(Get(meetingsContainer, "meeting"))
         THEN <<>>
         ELSE Map(AsArray(Get(meetingsContainer, "meeting")), SelfMeetingRecord)
    ELSE <<>>

\* the shapes of a parsed meetings document
MeetingsIn(response, getmeetings) ==
    IF Truthy(getmeetings) /\ Truthy(Get(getmeetings, "committee"))
    THEN NestedMeetings(Get(getmeetings, "committee"),
                        Get(Get(getmeetings, "committee"), "committeemeetings"))
    ELSE IF Truthy(getmeetings) /\ Get(getmeetings, "meetingscount").k # "undef"
    THEN <<>>
    ELSE FlatMeetings(Get(response, "getmeetingsbydate"),
                      Get(Get(response, "getmeetingsbydate"), "meetings"))

MeetingsOf(response) == MeetingsIn(response, Get(response, "getmeetings"))

parseMeetingsTry(xmlData) ==
    IF IsEmptyResponse(xmlData)
    THEN Thrown(<<"Server returned empty response.">>, <<>>)
    ELSE IF IsNonXmlResponse(xmlData)
    THEN Thrown(<<"Server returned non-XML response: ">>, substring(xmlData, 100))
    ELSE IF IsHtmlErrorPage(xmlData)
    THEN Thrown(<<"Server returned HTML error page instead of XML data. Response preview: ">>,
                substring(xmlData, 200))
    ELSE Then(ParsedOrThrown(xmlData), MeetingsOf)

parseMeetingsResponse(xmlData) ==
    Catch(parseMeetingsTry(xmlData), "Failed to parse meetings response")

CalendarEventRecord(event) ==
    [eventid |-> Or(Get(event, "eventid"), Str("")),
     eventtitle |-> Or(Get(event, "eventtitle"), Str("")),
     eventdate |-> Or(Get(event, "eventdate"), Str("")),
     eventdescription |-> Or(Get(event, "eventdescription"), Str("")),
     eventlocation |-> Or(Get(event, "eventlocation"), Str(""))]

EventsIn(eventsElement) ==
    IF ~Truthy(eventsElement) \/ ~Truthy(Get(eventsElement, "event"))
    THEN <<>>
    ELSE Map(AsArray(Get(eventsElement, "event")), CalendarEventRecord)

EventsOf(response) == EventsIn(Get(response, "calendarevents"))

parseCalendarEventsTry(xmlData) == Then(ParsedOrThrown(xmlData), EventsOf)

parseCalendarEventsResponse(xmlData) ==
    Catch(parseCalendarEventsTry(xmlData), "Failed to parse calendar events response")

ParishCouncilRecord(council) ==
    [parishcouncilid |-> Or(Get(council, "parishcouncilid"), Str("")),
     parishcounciltitle |-> Or(Get(council, "parishcounciltitle"), Str("")),
     parishcouncilwebsite |-> Or(Get(council, "parishcouncilwebsite"), Str("")),
     parishcouncilcontact |-> Or(Get(council, "parishcouncilcontact"), Str(""))]

ParishCouncilsIn(councilsElement) ==
    IF ~Truthy(councilsElement) \/ ~Truthy(Get(councilsElement, "parishcouncil"))
    THEN <<>>
    ELSE Map(AsArray(Get(councilsElement, "parishcouncil")), ParishCouncilRecord)

ParishCouncilsOf(response) == ParishCouncilsIn(Get(response, "parishcouncils"))

parseParishCouncilsTry(xmlData) == Then(ParsedOrThrown(xmlData), ParishCouncilsOf)

parseParishCouncilsResponse(xmlData) ==
    Catch(parseParishCouncilsTry(xmlData), "Failed to parse parish councils response")

ElectionResultRecord(res) ==
    [electionid |-> Or(Get(res, "electionid"), Str("")),
     electiontitle |-> Or(Get(res, "electiontitle"), Str("")),
     electiondate |-> Or(Get(res, "electiondate"), Str("")),
     results |-> Or(Get(res, "results"), Arr(<<>>))]

ElectionResultsIn(resultsElement) ==
    IF ~Truthy(resultsElement) \/ ~Truthy(Get(resultsElement, "electionresult"))
    THEN <<>>
    ELSE Map(AsArray(Get(resultsElement, "electionresult")), ElectionResultRecord)

ElectionResultsOf(response) == ElectionResultsIn(Get(response, "electionresults"))

parseElectionResultsTry(xmlData) == Then(ParsedOrThrown(xmlData), ElectionResultsOf)

parseElectionResultsResponse(xmlData) ==
    Catch(parseElectionResultsTry(xmlData), "Failed to parse election results response")

\* a webcast meeting read from the webcastmeetings shape
WebCastMeetingRecord(meeting) ==
    [meetingid |-> Or(Get(meeting, "meetingid"), Str("")),
     meetingtitle |-> Or(Get(meeting, "meetingtitle"), Str("")),
     webcasturl |-> Or(Get(meeting, "webcasturl"), Str("")),
     meetingdate |-> Or(Get(meeting, "meetingdate"), Str(""))]

\* a webcast meeting converted from the getmeetings shape
ConvertedMeetingRecord(meeting) ==
    [meetingid |-> Or(Get(meeting, "id"), Str("")),
     meetingtitle |-> Or(Get(meeting, "title"), Str("")),
     webcasturl |-> Or(Get(meeting, "webcasturl"), Str("")),
     meetingdate |-> Or(Get(meeting, "date"), Str(""))]

\* allMeetings: the meetings of every committee, in order
RECURSIVE CommitteeMeetings(_)
CommitteeMeetings(committees) ==
    IF committees = <<>> THEN <<>>
    ELSE LET committee == Head(committees)
         IN  (IF Truthy(Get(committee, "meeting"))
              THEN AsArray(Get(committee, "meeting"))
              ELSE <<>>) \o CommitteeMeetings(Tail(committees))

WebCastMeetingsIn(meetingsElement, getmeetings) ==
    IF /\ ~Truthy(meetingsElement)
       /\ Truthy(getmeetings)
       /\ Truthy(Get(getmeetings, "committee"))
    THEN Map(CommitteeMeetings(AsArray(Get(getmeetings, "committee"))), ConvertedMeetingRecord)
    ELSE IF ~Truthy(meetingsElement) \/ ~Truthy(Get(meetingsElement, "webcastmeeting"))
    THEN <<>>
    ELSE Map(AsArray(Get(meetingsElement, "webcastmeeting")), WebCastMeetingRecord)

WebCastMeetingsOf(response) ==
    WebCastMeetingsIn(Get(response, "webcastmeetings"), Get(response, "getmeetings"))

parseWebCastMeetingsTry(xmlData) == Then(ParsedOrThrown(xmlData), WebCastMeetingsOf)

parseWebCastMeetingsResponse(xmlData) ==
    Catch(parseWebCastMeetingsTry(xmlData), "Failed to parse webcast meetings response")

MpRecord(mp) ==
    [mpid |-> Or(Get(mp, "mpid"), Str("")),
     mpname |-> Or(Get(mp, "fullusername"), Str("")),
     constituency |-> Or(Get(mp, "constituency"), Str("")),
     party |-> Or(Get(mp, "politicalpartytitle"), Str("")),
     wards |-> Or(Get(mp, "wards"), Arr(<<>>))]

MpsIn(mpsElement) ==
    IF \/ ~Truthy(mpsElement)
       \/ ~Truthy(Get(mpsElement, "mps"))
       \/ ~Truthy(Get(Get(mpsElement, "mps"), "mp"))
    THEN <<>>
    ELSE Map(AsArray(Get(Get(mpsElement, "mps"), "mp")), MpRecord)

MpsOf(response) == MpsIn(Get(response, "mpswards"))

parseMpOrMepsAndWardsTry(xmlData) == Then(ParsedOrThrown(xmlData), MpsOf)

parseMpOrMepsAndWardsResponse(xmlData) ==
    Catch(parseMpOrMepsAndWardsTry(xmlData), "Failed to parse MP/MEP response")

\* the try block of the routine of that name: what it returns or throws
\* before the catch
NormalizeTry(routine, xmlData) ==
    CASE routine = "parseCouncillorsResponse" -> parseCouncillorsTry(xmlData)
      [] routine = "parseCommitteesResponse" -> parseCommitteesTry(xmlData)
      [] routine = "parseMeetingsResponse" -> parseMeetingsTry(xmlData)
      [] routine = "parseCalendarEventsResponse" -> parseCalendarEventsTry(xmlData)
      [] routine = "parseParishCouncilsResponse" -> parseParishCouncilsTry(xmlData)
      [] routine = "parseElectionResultsResponse" -> parseElectionResultsTry(xmlData)
      [] routine = "parseWebCastMeetingsResponse" -> parseWebCastMeetingsTry(xmlData)
      [] routine = "parseMpOrMepsAndWardsResponse" -> parseMpOrMepsAndWardsTry(xmlData)

\* the normalizer routines, by name
Routines == {"parseCouncillorsResponse", "parseCommitteesResponse", "parseMeetingsResponse",
             "parseCalendarEventsResponse", "parseParishCouncilsResponse",
             "parseElectionResultsResponse", "parseWebCastMeetingsResponse",
             "parseMpOrMepsAndWardsResponse"}

\* parser(data): the routine of that name applied to a body
Normalize(routine, xmlData) ==
    CASE routine = "parseCouncillorsResponse" -> parseCouncillorsResponse(xmlData)
      [] routine = "parseCommitteesResponse" -> parseCommitteesResponse(xmlData)
      [] routine = "parseMeetingsResponse" -> parseMeetingsResponse(xmlData)
      [] routine = "parseCalendarEventsResponse" -> parseCalendarEventsResponse(xmlData)
      [] routine = "parseParishCouncilsResponse" -> parseParishCouncilsResponse(xmlData)
      [] routine = "parseElectionResultsResponse" -> parseElectionResultsResponse(xmlData)
      [] routine = "parseWebCastMeetingsResponse" -> parseWebCastMeetingsResponse(xmlData)
      [] routine = "parseMpOrMepsAndWardsResponse" -> parseMpOrMepsAndWardsResponse(xmlData)

----------------------------------------------------------------------------
(* The response bodies of the model.                                       *)

HtmlPage(title, text) ==
    Elem("html", Elem("head", Leaf("title", title)) \o Elem("body", Leaf("h1", text)))

BodyEmpty == <<>>
BodyBlank == <<Ws>>
BodyPlainText == <<Text("Service Unavailable")>>
BodyTextThenXml == <<Text("Warning")>> \o Elem("committees", <<>>)
\* <!DOCTYPE html><html><head><title>Error</title></head><body>...</body></html>
BodyHtmlError == <<Doctype>> \o HtmlPage("Error", "Server Error in Application")
BodyHtmlErrorLower == <<DoctypeLower>> \o HtmlPage("Error", "Server Error in Application")
BodyHtmlErrorNoDoctype == <<Ws>> \o HtmlPage("Error", "Server Error in Application")
BodyHtmlUpper == Elem("HTML", Elem("BODY", <<Text("Not Found")>>))
\* an HTML page that is not well-formed XML: <meta> is never closed
BodyHtmlUnclosed ==
    <<Doctype>> \o Elem("html", Elem("head", <<Open("meta")>> \o Leaf("title", "Error")))
\* an XML fault document with a title and the word Error
BodyXmlFault == <<Decl>> \o Elem("fault", Leaf("title", "Error") \o Leaf("code", "500"))
BodyXmlTitleOnly == Elem("page", Leaf("title", "Not Found"))
BodyUnknownRoot == <<Decl>> \o Elem("response", Leaf("status", "ok"))
BodyUnclosed == <<Open("getmeetings")>> \o Leaf("meetingscount", "0")
BodyDeclOnly == <<Decl>>

MeetingXml(id, date) == Elem("meeting", Leaf("meetingid", id) \o Leaf("meetingdate", date))
CommitteeXml(id, meetings) ==
    Elem("committee", Leaf("committeeid", id) \o Leaf("committeetitle", "Cabinet")
                       \o Elem("committeemeetings", meetings))

BodyCountOnly == <<Decl>> \o Elem("getmeetings", Leaf("meetingscount", "0"))
BodyCountOnlyNoDecl == <<Ws>> \o Elem("getmeetings", Leaf("meetingscount", "3")) \o <<Ws>>
BodyCountEmpty == Elem("getmeetings", <<Empty("meetingscount")>>)
BodyGetMeetingsOther == Elem("getmeetings", Leaf("status", "ok"))
BodyCommitteeOne == <<Decl>> \o Elem("getmeetings", CommitteeXml("138", MeetingXml("1", "2024-01-10")))
BodyCommitteeTwo ==
    Elem("getmeetings", CommitteeXml("138", MeetingXml("1", "2024-01-10")
                                             \o MeetingXml("2", "2024-02-14")))
BodyCommitteeNoMeetings == Elem("getmeetings", CommitteeXml("138", <<>>))
BodyTwoCommittees ==
    Elem("getmeetings", CommitteeXml("138", MeetingXml("1", "2024-01-10"))
                         \o CommitteeXml("139", MeetingXml("2", "2024-02-14")))
BodyByDateOne == Elem("getmeetingsbydate", Elem("meetings", MeetingXml("1", "2024-01-10")))
BodyByDateTwo ==
    Elem("getmeetingsbydate", Elem("meetings", MeetingXml("1", "2024-01-10")
                                                 \o Elem("meeting", <<>>)))
BodyByDateNone == Elem("getmeetingsbydate", <<Empty("meetings")>>)

CouncillorXml(id) == Elem("councillor", Leaf("councillorid", id) \o Leaf("fullusername", "A"))
BodyWardsOne ==
    Elem("councillorsbyward",
         Elem("wards", Elem("ward", Leaf("wardtitle", "North")
                                     \o Elem("councillors", Leaf("councillorcount", "1")
                                                             \o CouncillorXml("7")))))
BodyWardsTwo ==
    Elem("councillorsbywardid",
         Elem("wards", Elem("ward", Leaf("wardtitle", "North")
                                     \o Elem("councillors", CouncillorXml("7") \o CouncillorXml("8")))
                        \o Elem("ward", <<>>)))
BodyWardsNone == Elem("councillorsbypostcode", <<Empty("wards")>>)
\* a councillor for whom the server sends an id and no name
BodyWardsBareCouncillor ==
    Elem("councillorsbyward",
         Elem("wards", Elem("ward", Leaf("wardtitle", "South")
                                     \o Elem("councillors", Elem("councillor", Leaf("councillorid", "9"))))))

BodyCommitteesOne == Elem("committees", Elem("committee", Leaf("committeeid", "138")))
BodyCommitteesTwo ==
    <<Decl>> \o Elem("committees", Elem("committee", Leaf("committeeid", "138")
                                                       \o Leaf("committeetitle", "Cabinet"))
                                     \o Elem("committee", Leaf("committeeid", "139")))
BodyCommitteesNone == <<Empty("committees")>>

BodyEventsOne == Elem("calendarevents", Elem("event", Leaf("eventid", "5")))
BodyEventsTwo ==
    Elem("calendarevents", Elem("event", Leaf("eventid", "5"))
                            \o Elem("event", Leaf("eventtitle", "Fair")))
BodyParishOne == Elem("parishcouncils", Elem("parishcouncil", Leaf("parishcouncilid", "3")))
BodyParishTwo ==
    Elem("parishcouncils", Elem("parishcouncil", Leaf("parishcouncilid", "3"))
                            \o Elem("parishcouncil", Leaf("parishcounciltitle", "Ash")))
BodyElectionOne == Elem("electionresults", Elem("electionresult", Leaf("electionid", "9")))
BodyElectionTwo ==
    Elem("electionresults", Elem("electionresult", Leaf("electionid", "9"))
                             \o Elem("electionresult", Leaf("electiontitle", "May")))
BodyWebCastOne == Elem("webcastmeetings", Elem("webcastmeeting", Leaf("meetingid", "1")))
BodyWebCastTwo ==
    Elem("webcastmeetings", Elem("webcastmeeting", Leaf("meetingid", "1"))
                             \o Elem("webcastmeeting", Leaf("webcasturl", "u")))
BodyWebCastFromMeetings ==
    Elem("getmeetings", Elem("committee", Elem("meeting", Leaf("id", "1") \o Leaf("date", "d")))
                         \o Elem("committee", Elem("meeting", Leaf("id", "2"))
                                               \o Elem("meeting", Leaf("title", "t"))))
BodyMpsOne == Elem("mpswards", Elem("mps", Elem("mp", Leaf("mpid", "4"))))
BodyMpsTwo ==
    Elem("mpswards", Elem("mps", Elem("mp", Leaf("mpid", "4"))
                                  \o Elem("mp", Leaf("fullusername", "B"))))

MalformedBodies ==
    {BodyEmpty, BodyBlank, BodyPlainText, BodyTextThenXml, BodyHtmlError, BodyHtmlErrorLower,
     BodyHtmlErrorNoDoctype, BodyHtmlUpper, BodyHtmlUnclosed, BodyXmlFault, BodyUnclosed,
     BodyDeclOnly}
MeetingsBodies ==
    {BodyCountOnly, BodyCountOnlyNoDecl, BodyCountEmpty, BodyGetMeetingsOther, BodyCommitteeOne,
     BodyCommitteeTwo, BodyCommitteeNoMeetings, BodyTwoCommittees, BodyByDateOne, BodyByDateTwo,
     BodyByDateNone}
OtherBodies ==
    {BodyXmlTitleOnly, BodyUnknownRoot, BodyWardsOne, BodyWardsTwo, BodyWardsNone,
     BodyWardsBareCouncillor,
     BodyCommitteesOne, BodyCommitteesTwo, BodyCommitteesNone, BodyEventsOne, BodyEventsTwo,
     BodyParishOne, BodyParishTwo, BodyElectionOne, BodyElectionTwo, BodyWebCastOne,
     BodyWebCastTwo, BodyWebCastFromMeetings, BodyMpsOne, BodyMpsTwo}
Bodies == MalformedBodies \cup MeetingsBodies \cup OtherBodies


----------------------------------------------------------------------------
(* The client operations.                                                  *)

rateLimitMs == 1000

\* per operation: the parameter validateParameters requires ("" when the
\* operation validates none) and the normalizer handed to handleApiResponse
Operations ==
    [getCouncillorsByWard |-> [required |-> "", parser |-> "parseCouncillorsResponse"],
     getCouncillorsByWardId |-> [required |-> "wardId", parser |-> "parseCouncillorsResponse"],
     getCouncillorsByPostcode |-> [required |-> "postcode", parser |-> "parseCouncillorsResponse"],
     getCommittees |-> [required |-> "", parser |-> "parseCommitteesResponse"],
     getMeetings |-> [required |-> "committeeId", parser |-> "parseMeetingsResponse"],
     getMeeting |-> [required |-> "meetingId", parser |-> "parseMeetingsResponse"],
     getAllMeetingsByDate |-> [required |-> "", parser |-> "parseMeetingsResponse"],
     getCalendarEvents |-> [required |-> "", parser |-> "parseCalendarEventsResponse"],
     getParishCouncils |-> [required |-> "", parser |-> "parseParishCouncilsResponse"],
     getElectionResults |-> [required |-> "electionId", parser |-> "parseElectionResultsResponse"],
     getWebCastMeetings |-> [required |-> "committeeId", parser |-> "parseWebCastMeetingsResponse"],
     getMpOrMepsAndWards |-> [required |-> "", parser |-> "parseMpOrMepsAndWardsResponse"],
     getMpOrMepAndWardsByPostcode |-> [required |-> "postcode", parser |-> "parseMpOrMepsAndWardsResponse"]]

OpNames == DOMAIN Operations

\* what a caller may pass for the validated parameter
ParamValues == {"value", "undefined", "null"}
ParamInputs(op) == IF Operations[op].required = "" THEN {"undefined"} ELSE ParamValues

\* validateUrl(url) returns (TRUE) or throws (FALSE)
validateUrl(url) == URLParses(url)

\* a validation that tests for undefined only
validateParametersUndefinedOnly(op, param) ==
    Operations[op].required = "" \/ param # "undefined"

\* validateParameters(params, required) returns (TRUE) or throws (FALSE)
validateParameters(op, param) ==
    Operations[op].required = "" \/ param \notin {"undefined", "null"}

\* a limiter with one key for every site
domainShared(siteUrl) == "*"

\* checkRateLimit: const domain = new URL(siteUrl).hostname
domain(siteUrl) == hostname(siteUrl)

\* checkRateLimit: this.rateLimiter.get(domain) || 0
lastRequestOf(limiter, key) == IF key \in DOMAIN limiter THEN limiter[key] ELSE 0

\* a limiter that sleeps for the time elapsed instead of the time remaining
waitTimeElapsed(now, lastRequest) ==
    IF now - lastRequest < rateLimitMs THEN now - lastRequest ELSE 0

\* a limiter that sleeps for one interval more
waitTimeDoubled(now, lastRequest) ==
    IF now - lastRequest < rateLimitMs THEN 2 * rateLimitMs - (now - lastRequest) ELSE 0

\* checkRateLimit: the time to sleep, 0 when the call does not sleep
waitTime(now, lastRequest) ==
    IF now - lastRequest < rateLimitMs THEN rateLimitMs - (now - lastRequest) ELSE 0

\* a map that keeps the entry written last only
MapSetOnly(limiter, key, now) == [k \in {key} |-> now]

\* this.rateLimiter.set(key, now)
MapSet(limiter, key, now) ==
    [k \in DOMAIN limiter \cup {key} |-> IF k = key THEN now ELSE limiter[k]]

Pending == [ok |-> FALSE, value |-> <<>>, error |-> NoError]
NoResponse == [status |-> 0, data |-> <<>>]
NoCall == [op |-> "", siteUrl |-> <<>>, param |-> "", now |-> 0, wakeAt |-> 0, after |-> {},
           response |-> NoResponse]

\* the calls whose request has been issued
Dispatched == {c \in Calls : requests[c] # <<>>}

\* what the transport may deliver: an HTTP response with a status and a body,
\* or no response at all (status 0: the connection failed)
Statuses == {200, 204, 404, 500}
Responses ==
    [status : {200}, data : Bodies] \cup [status : Statuses \ {200}, data : {BodyEmpty, BodyHtmlError}]
        \cup {NoResponse}

\* axios.get resolves for a 2xx status and rejects otherwise
AxiosResolves(response) == response.status >= 200 /\ response.status < 300

\* the catch of handleApiResponse: an error is thrown again with more context
Rethrow(inner) ==
    IF inner.ok THEN inner
    ELSE Thrown(<<"API parsing failed: ">> \o inner.error.msg, inner.error.preview)

\* handleApiResponse without the test for a missing body
handleApiResponseNoDataCheck(response, parser) ==
    IF response.status # 0 /\ response.status # 200
    THEN [r |-> Rethrow(Thrown(<<"API request failed with status code">>, <<>>)),
          parsed |-> FALSE]
    ELSE [r |-> Rethrow(Normalize(parser, response.data)), parsed |-> TRUE]

\* handleApiResponse(response, parser): r is what it returns or throws,
\* parsed whether it invoked the parser
handleApiResponse(response, parser) ==
    IF response.status # 0 /\ response.status # 200
    THEN [r |-> Rethrow(Thrown(<<"API request failed with status code">>, <<>>)),
          parsed |-> FALSE]
    ELSE IF response.data = <<>>
    THEN [r |-> Rethrow(Thrown(<<"No data received from API">>, <<>>)), parsed |-> FALSE]
    ELSE [r |-> Rethrow(Normalize(parser, response.data)), parsed |-> TRUE]

\* what the operation returns from the normalized records: getMeeting returns
\* the first meeting or null (the empty sequence here), the others all of them
Returns(op, r) ==
    IF op = "getMeeting" /\ r.ok /\ Len(r.value) > 0 THEN Returned(<<r.value[1]>>) ELSE r

\* a score: the fraction num / den
Score(num, den) == [num |-> num, den |-> den]

\* no request built yet, and no matcher method applied yet
NoParams == [names |-> <<>>, from |-> Undef, to |-> Undef]
NoBuild == [op |-> "", siteUrl |-> <<>>, date |-> Undef, fromDate |-> Undef, toDate |-> Undef,
            currentYear |-> 0]
NotBuilt == [built |-> FALSE, endpoint |-> <<>>, params |-> NoParams]
NoMatch == [fn |-> "", query |-> <<>>, councilName |-> <<>>, councils |-> <<>>,
            minScore |-> Score(0, 1), score |-> Score(0, 1)]
NotMatched == [done |-> FALSE, score |-> Score(0, 1), confidence |-> "", best |-> <<>>,
               matches |-> <<>>, scored |-> 0]

TypeOK ==
    /\ clock \in StartTime .. MaxClock
    /\ DOMAIN rateLimiter \subseteq {hostname(u) : u \in {v \in GateUrls \cup SiteUrls : URLParses(v)}}
    /\ pc \in [Calls -> {"idle", "sleeping", "inflight", "done", "failed"}]
    /\ \A c \in Calls : Len(requests[c]) \in 0 .. 1 /\ parserCalls[c] \in 0 .. 1

Init ==
    /\ clock = StartTime
    /\ rateLimiter = << >>
    /\ pc = [c \in Calls |-> "idle"]
    /\ call = [c \in Calls |-> NoCall]
    /\ requests = [c \in Calls |-> <<>>]
    /\ parserCalls = [c \in Calls |-> 0]
    /\ result = [c \in Calls |-> Pending]
    /\ parseIn = [routine |-> "", body |-> <<>>]
    /\ parseOut = Pending
    /\ buildIn = NoBuild
    /\ buildOut = NotBuilt
    /\ matchIn = NoMatch
    /\ matchOut = NotMatched

\* time passes between two steps of the event loop
Tick ==
    /\ clock + Tick0 <= MaxClock
    /\ clock' = clock + Tick0
    /\ UNCHANGED <<rateLimiter, pc, call, requests, parserCalls, result, parseIn, parseOut,
                 buildIn, buildOut, matchIn, matchOut>>

\* const endpoint = this.getEndpointUrl(...); axios.get(endpoint, ...): the
\* request leaves at the current time
Dispatch(c, op, siteUrl) ==
    requests' = [requests EXCEPT ![c] = Append(@, [op |-> op, siteUrl |-> siteUrl,
                                                    time |-> clock])]

\* A client operation is called: validateUrl, validateParameters, then
\* checkRateLimit up to its await; a call that need not wait records the
\* time and issues its request in the same step.
Invoke(c, op, siteUrl, param) ==
    /\ pc[c] = "idle"
    /\ IF ~validateUrl(siteUrl)
       THEN /\ pc' = [pc EXCEPT ![c] = "failed"]
            /\ result' = [result EXCEPT ![c] = Thrown(<<"Invalid URL format: ">>, <<>>)]
            /\ call' = [call EXCEPT ![c] = [NoCall EXCEPT !.op = op, !.siteUrl = siteUrl,
                                                           !.param = param]]
            /\ UNCHANGED <<rateLimiter, requests>>
       ELSE IF ~validateParameters(op, param)
       THEN /\ pc' = [pc EXCEPT ![c] = "failed"]
            /\ result' = [result EXCEPT ![c] =
                            Thrown(<<"Missing required parameter: ", Operations[op].required>>, <<>>)]
            /\ call' = [call EXCEPT ![c] = [NoCall EXCEPT !.op = op, !.siteUrl = siteUrl,
                                                           !.param = param]]
            /\ UNCHANGED <<rateLimiter, requests>>
       ELSE LET now == clock
                lastRequest == lastRequestOf(rateLimiter, domain(siteUrl))
                wait == waitTime(now, lastRequest)
                locals == [op |-> op, siteUrl |-> siteUrl, param |-> param, now |-> now,
                           wakeAt |-> now + wait, after |-> Dispatched,
                           response |-> NoResponse]
            IN  /\ call' = [call EXCEPT ![c] = locals]
                /\ result' = result
                /\ IF wait > 0
                   THEN /\ pc' = [pc EXCEPT ![c] = "sleeping"]
                        /\ UNCHANGED <<rateLimiter, requests>>
                   ELSE /\ pc' = [pc EXCEPT ![c] = "inflight"]
                        /\ rateLimiter' = MapSet(rateLimiter, domain(siteUrl), clock)
                        /\ Dispatch(c, op, siteUrl)
    /\ UNCHANGED <<clock, parserCalls, parseIn, parseOut,
                 buildIn, buildOut, matchIn, matchOut>>

\* The timer of a sleeping call fires: checkRateLimit records Date.now() and
\* returns, and the operation issues its request.
Wake(c) ==
    /\ pc[c] = "sleeping"
    /\ clock >= call[c].wakeAt
    /\ pc' = [pc EXCEPT ![c] = "inflight"]
    /\ rateLimiter' = MapSet(rateLimiter, domain(call[c].siteUrl), clock)
    /\ Dispatch(c, call[c].op, call[c].siteUrl)
    /\ UNCHANGED <<clock, call, parserCalls, result, parseIn, parseOut,
                 buildIn, buildOut, matchIn, matchOut>>

\* the operation of the concurrent calls, and what they pass for its parameter
GateOps == {"getMeetings"}
GateParams == {"value", "null"}

Next ==
    \/ Tick
    \/ \E c \in Calls, op \in GateOps, siteUrl \in GateUrls :
         \E param \in GateParams : Invoke(c, op, siteUrl, param)
    \/ \E c \in Calls : Wake(c)

Spec == Init /\ [][Next]_vars

\* The transport settles the request of the call: axios.get rejects, or the
\* operation hands the response to handleApiResponse and returns its result.
Respond(c, response) ==
    /\ pc[c] = "inflight"
    /\ call' = [call EXCEPT ![c].response = response]
    /\ IF ~AxiosResolves(response)
       THEN /\ pc' = [pc EXCEPT ![c] = "failed"]
            /\ result' = [result EXCEPT ![c] = Thrown(<<"Request failed">>, <<>>)]
            /\ UNCHANGED parserCalls
       ELSE \E h \in {handleApiResponse(response, Operations[call[c].op].parser)} :
                /\ pc' = [pc EXCEPT ![c] = IF h.r.ok THEN "done" ELSE "failed"]
                /\ result' = [result EXCEPT ![c] = Returns(call[c].op, h.r)]
                /\ parserCalls' = [parserCalls EXCEPT ![c] = @ + (IF h.parsed THEN 1 ELSE 0)]
    /\ UNCHANGED <<clock, rateLimiter, requests, parseIn, parseOut,
                 buildIn, buildOut, matchIn, matchOut>>

\* The caller has its answer; the next call is a new one.
Return(c) ==
    /\ pc[c] \in {"done", "failed"}
    /\ pc' = [pc EXCEPT ![c] = "idle"]
    /\ call' = [call EXCEPT ![c] = NoCall]
    /\ requests' = [requests EXCEPT ![c] = <<>>]
    /\ parserCalls' = [parserCalls EXCEPT ![c] = 0]
    /\ result' = [result EXCEPT ![c] = Pending]
    /\ UNCHANGED <<clock, rateLimiter, parseIn, parseOut,
                 buildIn, buildOut, matchIn, matchOut>>

\* One caller issuing calls one after the other, to every operation and with
\* every response.
NextClient ==
    \/ Tick
    \/ \E op \in OpNames, siteUrl \in SiteUrls :
         \E param \in ParamInputs(op) : Invoke(1, op, siteUrl, param)
    \/ Wake(1)
    \/ \E response \in Responses : Respond(1, response)
    \/ Return(1)

SpecClient == Init /\ [][NextClient]_vars

\* A normalizer routine applied on its own to a body.
InitParse ==
    /\ Init!1 /\ Init!2 /\ Init!3 /\ Init!4 /\ Init!5 /\ Init!6 /\ Init!7
    /\ parseIn \in [routine : Routines, body : Bodies]
    /\ parseOut = Pending
    /\ Init!10 /\ Init!11 /\ Init!12 /\ Init!13

Applied == parseOut # Pending

Apply ==
    /\ ~Applied
    /\ parseOut' = Normalize(parseIn.routine, parseIn.body)
    /\ UNCHANGED <<clock, rateLimiter, pc, call, requests, parserCalls, result, parseIn,
                   buildIn, buildOut, matchIn, matchOut>>

NextParse == Apply

SpecParse == InitParse /\ [][NextParse]_vars

----------------------------------------------------------------------------
(* The request of an operation: its endpoint and its date parameters.      *)
(* A site URL is a token sequence as above; its path tokens are "/x"       *)
(* segments, the query "?WSDL" and a lone "/".                             *)

ServicePath == "/mgWebService.asmx"

\* s.replace(tok, ''): without the first occurrence of tok
replaceFirst(s, tok) ==
    IF \E i \in 1 .. Len(s) : s[i] = tok
    THEN SubSeq(s, 1, (CHOOSE i \in 1 .. Len(s) : s[i] = tok /\ \A j \in 1 .. i - 1 : s[j] # tok) - 1)
            \o SubSeq(s, (CHOOSE i \in 1 .. Len(s) : s[i] = tok /\ \A j \in 1 .. i - 1 : s[j] # tok) + 1,
                      Len(s))
    ELSE s

\* s.replace(/\/$/, ''): without a slash at its end
replaceTrailingSlash(s) ==
    IF s # <<>> /\ s[Len(s)] = "/" THEN SubSeq(s, 1, Len(s) - 1) ELSE s

\* s.endsWith(<<...>>)
endsWith(s, tail) ==
    Len(tail) <= Len(s) /\ SubSeq(s, Len(s) - Len(tail) + 1, Len(s)) = tail

\* s.replace(/\/democracy\/?$/, '')
replaceTrailingDemocracy(s) ==
    IF endsWith(s, <<"/democracy", "/">>) THEN SubSeq(s, 1, Len(s) - 2)
    ELSE IF endsWith(s, <<"/democracy">>) THEN SubSeq(s, 1, Len(s) - 1)
    ELSE s

\* the tokens that begin with "/"
SlashTokens == {"/", "/democracy", "/council", "/meetings", ServicePath}

\* urlParts[1].split('/')[0] when baseUrl.split('://') has two parts: what
\* lies between the "://" and the first "/"
domainPart(baseUrl) ==
    LET sep == CHOOSE i \in 1 .. Len(baseUrl) : baseUrl[i] = "://"
        rest == SubSeq(baseUrl, sep + 1, Len(baseUrl))
    IN  IF \E i \in 1 .. Len(rest) : rest[i] \in SlashTokens
        THEN SubSeq(rest, 1, (CHOOSE i \in 1 .. Len(rest) :
                                 rest[i] \in SlashTokens /\ \A j \in 1 .. i - 1 : rest[j] \notin SlashTokens) - 1)
        ELSE rest

\* baseUrl.replace(/^https?:\/\//, '')
replaceLeadingScheme(s) ==
    IF Len(s) >= 2 /\ s[1] \in {"http", "https"} /\ s[2] = "://" THEN SubSeq(s, 3, Len(s)) ELSE s

\* a base URL that keeps the slash at its end
baseUrlKeepSlash(siteUrl) == replaceFirst(siteUrl, "?WSDL")

\* const baseUrl = siteUrl.replace('?WSDL', '').replace(/\/$/, '')
baseUrl(siteUrl) == replaceTrailingSlash(replaceFirst(siteUrl, "?WSDL"))

\* webServiceUrl, from baseUrl
webServiceUrl(base) ==
    IF \E i \in 1 .. Len(base) : base[i] = ServicePath
    THEN base
    ELSE IF endsWith(base, <<"/democracy">>) \/ endsWith(base, <<"/democracy", "/">>)
    THEN replaceTrailingDemocracy(base) \o <<"/democracy", ServicePath>>
    ELSE IF Cardinality({i \in 1 .. Len(base) : base[i] = "://"}) = 1
    THEN <<"https", "://">> \o domainPart(base) \o <<ServicePath>>
    ELSE <<"https", "://">> \o replaceLeadingScheme(base) \o <<ServicePath>>

getEndpointUrl(siteUrl, operation) ==
    webServiceUrl(baseUrl(siteUrl)) \o <<"/" \o operation>>

\* the operation name each client operation passes to getEndpointUrl
EndpointNames ==
    [getCouncillorsByWard |-> "GetCouncillorsByWard",
     getCouncillorsByWardId |-> "GetCouncillorsByWardId",
     getCouncillorsByPostcode |-> "GetCouncillorsByPostcode",
     getCommittees |-> "GetCommittees",
     getMeetings |-> "GetMeetings",
     getMeeting |-> "GetMeeting",
     getAllMeetingsByDate |-> "GetAllMeetingsByDate",
     getCalendarEvents |-> "GetCalendarEvents",
     getParishCouncils |-> "GetParishCouncils",
     getElectionResults |-> "GetElectionResults",
     getWebCastMeetings |-> "GetWebCastMeetings",
     getMpOrMepsAndWards |-> "GetMpOrMepsAndWards",
     getMpOrMepAndWardsByPostcode |-> "GetMpOrMepAndWardsByPostcode"]

\* `${currentYear}-01-01` and `${currentYear}-12-31`
yearRange(names, currentYear) ==
    [names |-> names,
     from |-> Str(ToString(currentYear) \o "-01-01"),
     to |-> Str(ToString(currentYear) \o "-12-31")]

\* date parameters that are the caller's, given or not
dateParamsAsGiven(names, fromDate, toDate, currentYear) ==
    [names |-> names, from |-> fromDate, to |-> toDate]

\* date parameters that take each bound from the caller when it is given
dateParamsEither(names, fromDate, toDate, currentYear) ==
    [names |-> names,
     from |-> Or(fromDate, yearRange(names, currentYear).from),
     to |-> Or(toDate, yearRange(names, currentYear).to)]

\* if (fromDate && toDate) {...} else {...}: the caller's range, or the
\* current year
dateParams(names, fromDate, toDate, currentYear) ==
    IF Truthy(fromDate) /\ Truthy(toDate)
    THEN [names |-> names, from |-> fromDate, to |-> toDate]
    ELSE yearRange(names, currentYear)

\* the date parameters of the request of an operation
requestDates(op, date, fromDate, toDate, currentYear) ==
    CASE op \in {"getMeetings", "getWebCastMeetings"} ->
            dateParams(<<"sFromDate", "sToDate">>, fromDate, toDate, currentYear)
      [] op = "getCalendarEvents" ->
            dateParams(<<"sDateStart", "sDateEnd">>, fromDate, toDate, currentYear)
      [] op = "getAllMeetingsByDate" ->
            IF ~(Truthy(fromDate) /\ Truthy(toDate)) /\ Truthy(date)
            THEN [names |-> <<"sFromDate", "sToDate">>, from |-> date, to |-> date]
            ELSE dateParams(<<"sFromDate", "sToDate">>, fromDate, toDate, currentYear)
      [] OTHER -> NoParams

\* the site URLs a request is built for: valid URLs with a path
UrlPaths ==
    {<<>>, <<"/democracy">>, <<ServicePath>>, <<"/democracy", ServicePath>>, <<"/council">>,
     <<"/council", "/democracy">>, <<"/council", "/meetings">>}
UrlTails == {<<>>, <<"/">>, <<"?WSDL">>, <<"/", "?WSDL">>}
BuildUrls ==
    {<<scheme, "://", "a.gov.uk">> \o port \o path \o tail :
        scheme \in Schemes, port \in {<<>>} \cup {<<t>> : t \in PortTokens},
        path \in UrlPaths, tail \in UrlTails}

\* the operations that take a date range, and one that takes none
DateOps == {"getMeetings", "getAllMeetingsByDate", "getCalendarEvents", "getWebCastMeetings"}
BuildOps == DateOps \cup {"getCommittees"}

\* what a caller passes for a date: nothing, the empty string, a date
FromDates == {Undef, Str(""), Str("2024-03-01")}
ToDates == {Undef, Str(""), Str("2024-06-30")}
Dates(op) == IF op = "getAllMeetingsByDate" THEN {Str(""), Str("2024-05-05")} ELSE {Undef}
DateArgs(op) == IF op \in DateOps THEN FromDates \X ToDates ELSE {<<Undef, Undef>>}
\* new Date().getFullYear()
Years == {2024, 2025}

BuildInputs ==
    {[op |-> op, siteUrl |-> siteUrl, date |-> date, fromDate |-> range[1], toDate |-> range[2],
      currentYear |-> year] :
        op \in BuildOps, siteUrl \in BuildUrls, year \in Years,
        date \in {Undef, Str(""), Str("2024-05-05")}, range \in FromDates \X ToDates}

InitRequest ==
    /\ Init!1 /\ Init!2 /\ Init!3 /\ Init!4 /\ Init!5 /\ Init!6 /\ Init!7 /\ Init!8 /\ Init!9
    /\ buildIn \in {b \in BuildInputs : b.date \in Dates(b.op) /\ <<b.fromDate, b.toDate>> \in DateArgs(b.op)}
    /\ buildOut = NotBuilt
    /\ Init!12 /\ Init!13

\* const endpoint = this.getEndpointUrl(siteUrl, ...); const params = ...
BuildRequest ==
    /\ ~buildOut.built
    /\ buildOut' = [built |-> TRUE,
                    endpoint |-> getEndpointUrl(buildIn.siteUrl, EndpointNames[buildIn.op]),
                    params |-> requestDates(buildIn.op, buildIn.date, buildIn.fromDate,
                                            buildIn.toDate, buildIn.currentYear)]
    /\ UNCHANGED <<clock, rateLimiter, pc, call, requests, parserCalls, result, parseIn, parseOut,
                   buildIn, matchIn, matchOut>>

NextRequest == BuildRequest

SpecRequest == InitRequest /\ [][NextRequest]_vars

----------------------------------------------------------------------------
(* CouncilMatcher.  A string is a sequence of characters; a score is a     *)
(* fraction, compared by cross-multiplication.                             *)

\* longest string of the pairs that are scored
MaxLen == 3
\* longest reference list
MaxCouncils == 3
\* the scores getConfidence is applied to are the multiples of 1 / ScoreGrid
ScoreGrid == 100

Chars == {"a", "b", "A", " "}
Strings == UNION {[1 .. n -> Chars] : n \in 0 .. MaxLen}

\* x >= y, x > y, x = y for scores
Geq(x, y) == x.num * y.den >= y.num * x.den
Gt(x, y) == x.num * y.den > y.num * x.den
SameScore(x, y) == x.num * y.den = y.num * x.den
\* Math.max(x, y)
Max(x, y) == IF Geq(x, y) THEN x ELSE y

\* s.toLowerCase()
toLowerCase(s) ==
    [i \in 1 .. Len(s) |-> CASE s[i] = "A" -> "a" [] s[i] = "B" -> "b" [] OTHER -> s[i]]

\* s.includes(sub), on strings of characters
strIncludes(s, sub) ==
    \E i \in 0 .. Len(s) - Len(sub) : SubSeq(s, i + 1, i + Len(sub)) = sub

\* s.split(/\s+/): the pieces between the runs of white space; a run at the
\* start or the end leaves an empty piece
RECURSIVE splitFrom(_, _, _, _)
splitFrom(s, i, word, words) ==
    IF i > Len(s) THEN Append(words, word)
    ELSE IF s[i] = " "
    THEN IF i > 1 /\ s[i - 1] = " "
         THEN splitFrom(s, i + 1, word, words)
         ELSE splitFrom(s, i + 1, <<>>, Append(words, word))
    ELSE splitFrom(s, i + 1, Append(word, s[i]), words)

split(s) == splitFrom(s, 1, <<>>, <<>>)

\* the test of the inner loop
wordsMatch(queryWord, councilWord) ==
    \/ queryWord = councilWord
    \/ strIncludes(councilWord, queryWord)
    \/ strIncludes(queryWord, councilWord)

\* wordMatches after the loops: the query words that match a council word
wordMatches(queryWords, councilWords) ==
    Cardinality({i \in 1 .. Len(queryWords) :
                    \E j \in 1 .. Len(councilWords) : wordsMatch(queryWords[i], councilWords[j])})

\* a ratio over the number of words of the query alone
wordMatchRatioOfQuery(queryWords, councilWords) ==
    Score(wordMatches(queryWords, councilWords), Len(queryWords))

wordMatchRatio(queryWords, councilWords) ==
    Score(wordMatches(queryWords, councilWords),
          IF Len(queryWords) >= Len(councilWords) THEN Len(queryWords) ELSE Len(councilWords))

Min3(a, b, c) == IF a <= b /\ a <= c THEN a ELSE IF b <= c THEN b ELSE c

\* levenshtein(s, t), the edit distance, row by row: prev is the row of the
\* characters of s read so far, row the one being filled for the character ch
RECURSIVE levRow(_, _, _, _, _)
levRow(prev, ch, t, j, row) ==
    IF j > Len(t) THEN row
    ELSE levRow(prev, ch, t, j + 1,
                Append(row, Min3(prev[j + 1] + 1, row[j] + 1,
                                 prev[j] + (IF ch = t[j] THEN 0 ELSE 1))))

RECURSIVE levRows(_, _, _, _)
levRows(s, t, i, prev) ==
    IF i > Len(s) THEN prev[Len(t) + 1]
    ELSE levRows(s, t, i + 1, levRow(prev, s[i], t, 1, <<prev[1] + 1>>))

levenshtein(s, t) == levRows(s, t, 1, [j \in 1 .. Len(t) + 1 |-> j - 1])

maxLength(queryLower, councilLower) ==
    IF Len(queryLower) >= Len(councilLower) THEN Len(queryLower) ELSE Len(councilLower)

\* 1 - (distance / maxLength)
levenshteinScore(queryLower, councilLower) ==
    Score(maxLength(queryLower, councilLower) - levenshtein(queryLower, councilLower),
          maxLength(queryLower, councilLower))

\* the substring test in one direction only
substringMatchOneWay(queryLower, councilLower) == strIncludes(councilLower, queryLower)

\* councilLower.includes(queryLower) || queryLower.includes(councilLower)
substringMatch(queryLower, councilLower) ==
    strIncludes(councilLower, queryLower) \/ strIncludes(queryLower, councilLower)

\* the tiers without the first one
similarityOfNoExactTier(queryLower, councilLower) ==
    IF substringMatch(queryLower, councilLower) THEN Score(9, 10)
    ELSE Max(wordMatchRatio(split(queryLower), split(councilLower)),
             levenshteinScore(queryLower, councilLower))

\* calculateSimilarity, from the lower-cased strings on
similarityOf(queryLower, councilLower) ==
    IF queryLower = councilLower THEN Score(1, 1)
    ELSE IF substringMatch(queryLower, councilLower) THEN Score(9, 10)
    ELSE Max(wordMatchRatio(split(queryLower), split(councilLower)),
             levenshteinScore(queryLower, councilLower))

calculateSimilarity(query, councilName) ==
    similarityOf(toLowerCase(query), toLowerCase(councilName))

\* the tiers with > for >=
getConfidenceStrict(score) ==
    IF score.num * 20 > 19 * score.den THEN "exact"
    ELSE IF score.num * 5 > 4 * score.den THEN "high"
    ELSE IF score.num * 5 > 3 * score.den THEN "medium"
    ELSE "low"

\* getConfidence(score): 0.95 is 19 / 20, 0.8 is 4 / 5, 0.6 is 3 / 5
getConfidence(score) ==
    IF score.num * 20 >= 19 * score.den THEN "exact"
    ELSE IF score.num * 5 >= 4 * score.den THEN "high"
    ELSE IF score.num * 5 >= 3 * score.den THEN "medium"
    ELSE "low"

\* a query is blank only when it is the empty string
blankQueryEmptyOnly(query) == query = <<>>

\* !query || query.trim().length === 0
blankQuery(query) == \A i \in 1 .. Len(query) : query[i] = " "

\* { council, score, confidence }: the council is its place in the list
CouncilMatch(i, score) == [council |-> i, score |-> score, confidence |-> getConfidence(score)]

\* a later council replaces the best one when it scores as high
betterOrEqual(score, bestScore) == Geq(score, bestScore)

\* score > bestMatch.score
better(score, bestScore) == Gt(score, bestScore)

\* the loop of findBestMatch from council i on; bestMatch is <<>> for null
RECURSIVE bestFrom(_, _, _, _)
bestFrom(query, councils, i, bestMatch) ==
    IF i > Len(councils) THEN bestMatch
    ELSE bestFrom(query, councils, i + 1,
                  IF bestMatch = <<>> \/ better(calculateSimilarity(query, councils[i]),
                                               bestMatch[1].score)
                  THEN <<CouncilMatch(i, calculateSimilarity(query, councils[i]))>>
                  ELSE bestMatch)

\* findBestMatch(query): best is <<>> for null, scored counts the calls of
\* calculateSimilarity
findBestMatch(query, councils) ==
    IF blankQuery(query) THEN [best |-> <<>>, scored |-> 0]
    ELSE [best |-> bestFrom(query, councils, 1, <<>>), scored |-> Len(councils)]

\* the loop of findMatches from council i on
RECURSIVE matchesFrom(_, _, _, _)
matchesFrom(query, councils, minScore, i) ==
    IF i > Len(councils) THEN <<>>
    ELSE (IF Geq(calculateSimilarity(query, councils[i]), minScore)
          THEN <<CouncilMatch(i, calculateSimilarity(query, councils[i]))>>
          ELSE <<>>) \o matchesFrom(query, councils, minScore, i + 1)

\* m put into a sorted sequence behind the matches that score higher
insertByScore(m, sorted) ==
    SubSeq(sorted, 1, Cardinality({k \in 1 .. Len(sorted) : Gt(sorted[k].score, m.score)}))
        \o <<m>>
        \o SubSeq(sorted, Cardinality({k \in 1 .. Len(sorted) : Gt(sorted[k].score, m.score)}) + 1,
                  Len(sorted))

\* a sort that leaves the matches in list order
sortByScoreUnsorted(matches) == matches

\* matches.sort((a, b) => b.score - a.score): a stable sort, scores descending
RECURSIVE sortByScore(_)
sortByScore(matches) ==
    IF matches = <<>> THEN <<>>
    ELSE insertByScore(Head(matches), sortByScore(Tail(matches)))

findMatches(query, councils, minScore) ==
    IF blankQuery(query) THEN [matches |-> <<>>, scored |-> 0]
    ELSE [matches |-> sortByScore(matchesFrom(query, councils, minScore, 1)),
          scored |-> Len(councils)]

\* strings written as words: the characters of the reference names and the
\* queries
Name1 == <<"a", "b">>
Name2 == <<"A", "b">>
Name3 == <<"a", " ", "b", " ", "b">>
Name4 == <<"b", " ", "a">>
Name5 == <<"b", "b", "a">>
CouncilNames == {Name1, Name2, Name3, Name4, Name5}
Queries ==
    {<<>>, <<" ">>, <<" ", " ">>, <<"a", "b">>, <<"a", " ", "b">>, <<"b">>, <<"a", "B", " ">>,
     <<"a", "a", "a">>}
\* this.councils: the reference list of councils.json, here their names
CouncilLists == UNION {[1 .. n -> CouncilNames] : n \in 0 .. MaxCouncils}
MinScores == {Score(0, 1), Score(3, 10), Score(9, 10), Score(1, 1)}

\* the arguments of a call of the method fn
MatchInputs(fn) ==
    CASE fn = "calculateSimilarity" ->
            {[NoMatch EXCEPT !.fn = fn, !.query = pair[1], !.councilName = pair[2]] :
                pair \in Strings \X Strings}
      [] fn = "getConfidence" ->
            {[NoMatch EXCEPT !.fn = fn, !.score = Score(n, ScoreGrid)] : n \in 0 .. ScoreGrid}
      [] fn = "findBestMatch" ->
            {[NoMatch EXCEPT !.fn = fn, !.query = pair[1], !.councils = pair[2]] :
                pair \in Queries \X CouncilLists}
      [] fn = "findMatches" ->
            {[NoMatch EXCEPT !.fn = fn, !.query = t[1], !.councils = t[2], !.minScore = t[3]] :
                t \in Queries \X CouncilLists \X MinScores}

InitMatch ==
    /\ Init!1 /\ Init!2 /\ Init!3 /\ Init!4 /\ Init!5 /\ Init!6 /\ Init!7 /\ Init!8 /\ Init!9
    /\ Init!10 /\ Init!11
    /\ \E fn \in {"calculateSimilarity", "getConfidence", "findBestMatch", "findMatches"} :
          matchIn \in MatchInputs(fn)
    /\ matchOut = NotMatched

Unmatched ==
    UNCHANGED <<clock, rateLimiter, pc, call, requests, parserCalls, result, parseIn, parseOut,
                buildIn, buildOut, matchIn>>

CalculateSimilarity ==
    /\ ~matchOut.done /\ matchIn.fn = "calculateSimilarity"
    /\ matchOut' = [NotMatched EXCEPT !.done = TRUE,
                        !.score = calculateSimilarity(matchIn.query, matchIn.councilName)]
    /\ Unmatched

GetConfidence ==
    /\ ~matchOut.done /\ matchIn.fn = "getConfidence"
    /\ matchOut' = [NotMatched EXCEPT !.done = TRUE, !.score = matchIn.score,
                        !.confidence = getConfidence(matchIn.score)]
    /\ Unmatched

FindBestMatch ==
    /\ ~matchOut.done /\ matchIn.fn = "findBestMatch"
    /\ \E r \in {findBestMatch(matchIn.query, matchIn.councils)} :
          matchOut' = [NotMatched EXCEPT !.done = TRUE, !.best = r.best, !.scored = r.scored]
    /\ Unmatched

FindMatches ==
    /\ ~matchOut.done /\ matchIn.fn = "findMatches"
    /\ \E r \in {findMatches(matchIn.query, matchIn.councils, matchIn.minScore)} :
          matchOut' = [NotMatched EXCEPT !.done = TRUE, !.matches = r.matches,
                           !.scored = r.scored]
    /\ Unmatched

NextMatch == CalculateSimilarity \/ GetConfidence \/ FindBestMatch \/ FindMatches

SpecMatch == InitMatch /\ [][NextMatch]_vars


----------------------------------------------------------------------------
(* The rate limiter (checked under Spec).                                  *)

\* the time the request of a dispatched call left
SentAt(c) == requests[c][1].time
SameOrigin(p, q) == origin(call[p].siteUrl) = origin(call[q].siteUrl)
SameHostname(p, q) == hostname(call[p].siteUrl) = hostname(call[q].siteUrl)
\* the call slept in checkRateLimit
Waited(c) == pc[c] \in {"sleeping", "inflight", "done"} /\ call[c].wakeAt > call[c].now
Distance(a, b) == IF a >= b THEN a - b ELSE b - a

\* C1: any two calls to the same origin, concurrent or not, dispatch their
\* requests at least rateLimitMs apart.
C1_SameOriginSerialized ==
    \A p, q \in Dispatched :
        (p # q /\ SameOrigin(p, q)) => Distance(SentAt(p), SentAt(q)) >= rateLimitMs

\* C2: when call q to an origin starts after call p to the same origin was
\* admitted, q is held for at least rateLimitMs minus the time elapsed since
\* p's admission, so the two requests leave at least rateLimitMs apart.
C2_BackToBackSeparated ==
    \A p, q \in Dispatched :
        (p \in call[q].after /\ SameOrigin(p, q)) =>
            /\ SentAt(q) - call[q].now >= rateLimitMs - (call[q].now - SentAt(p))
            /\ SentAt(q) - SentAt(p) >= rateLimitMs

C2_Witness ==
    \E p, q \in Dispatched :
        /\ p \in call[q].after /\ SameOrigin(p, q)
        /\ call[q].now - SentAt(p) < rateLimitMs
        /\ Waited(q)

\* C3: a call is delayed only by an earlier request to its own origin: the
\* entry it waits on was written by a call to the same origin.
C3_DelayedOnlyBySameOrigin ==
    \A p \in Calls :
        Waited(p) =>
            \E q \in call[p].after :
                SameOrigin(p, q) /\ SentAt(q) + rateLimitMs = call[p].wakeAt

\* C3 as amended: a call is delayed only by an earlier request to its own
\* hostname, and a request to another hostname never delays it.
C3_DelayedOnlyBySameHostname ==
    \A p \in Calls :
        Waited(p) =>
            \E q \in call[p].after :
                SameHostname(p, q) /\ SentAt(q) + rateLimitMs = call[p].wakeAt

\* a call that started less than rateLimitMs after a request to another
\* hostname, and went out at once
C3_Witness ==
    \E p \in Dispatched :
        /\ ~Waited(p)
        /\ \E q \in call[p].after :
              ~SameHostname(p, q) /\ call[p].now - SentAt(q) < rateLimitMs

----------------------------------------------------------------------------
(* The client operations (checked under SpecClient).                       *)

Settled(c) == pc[c] \in {"done", "failed"}

\* the site URL is no URL, or the validated parameter is undefined or null
BadArguments(k) ==
    \/ ~URLParses(k.siteUrl)
    \/ (Operations[k.op].required # "" /\ k.param \in {"undefined", "null"})

\* C4: a call with an invalid site URL or a missing required parameter fails
\* in the step it is made, leaving the rate-limiter map as it was and
\* sending no request.
C4_ValidationBeforeGate ==
    [][\A c \in Calls :
          (pc[c] = "idle" /\ pc'[c] # "idle" /\ BadArguments(call'[c])) =>
              /\ pc'[c] = "failed"
              /\ rateLimiter' = rateLimiter
              /\ requests' = requests]_vars

\* a call with a null parameter has failed while the map holds a fresh entry
\* for its hostname
C4_Witness ==
    \E c \in Calls :
        /\ pc[c] = "failed" /\ requests[c] = <<>>
        /\ URLParses(call[c].siteUrl) /\ call[c].param = "null"
        /\ hostname(call[c].siteUrl) \in DOMAIN rateLimiter
        /\ clock - rateLimiter[hostname(call[c].siteUrl)] < rateLimitMs

\* C5: a call sends at most one request, and when the transport answers
\* with a status outside 2xx, with no answer or with no body, the call has
\* failed with no result and the normalizer was not invoked.
C5_OneRequestNoRetry ==
    \A c \in Calls :
        /\ Len(requests[c]) <= 1
        /\ (/\ Settled(c) /\ requests[c] # <<>>
            /\ \/ call[c].response.status < 200
               \/ call[c].response.status >= 300
               \/ call[c].response.data = <<>>)
           => /\ pc[c] = "failed"
              /\ ~result[c].ok /\ result[c].value = <<>>
              /\ parserCalls[c] = 0

\* a 200 response without a body has failed the call
C5_Witness ==
    \E c \in Calls :
        /\ pc[c] = "failed" /\ Len(requests[c]) = 1
        /\ call[c].response.status = 200 /\ call[c].response.data = <<>>

\* b ends with a
EndsWith(b, a) ==
    Len(a) <= Len(b) /\ SubSeq(b, Len(b) - Len(a) + 1, Len(b)) = a

\* C6: when the normalizer rejects the body, the error the caller gets
\* carries the cause the normalizer raised: its message and the excerpt of
\* the body it quotes.
C6_CauseReachesCaller ==
    \A c \in Calls :
        (pc[c] = "failed" /\ parserCalls[c] = 1) =>
            \E cause \in {NormalizeTry(Operations[call[c].op].parser, call[c].response.data)} :
                /\ EndsWith(result[c].error.msg, cause.error.msg)
                /\ result[c].error.preview = cause.error.preview

MeetingsOps == {"getMeetings", "getMeeting", "getAllMeetingsByDate"}

\* the body holds <title>Error</title>
HasErrorTitle(body) ==
    \E i \in 1 .. Len(body) - 2 :
        body[i] = Open("title") /\ body[i + 1] = Text("Error") /\ body[i + 2] = Close("title")

\* C7: a meetings operation answered 200 with a body holding
\* <title>Error</title> fails; it returns no result, empty or not.
C7_HtmlErrorFailsMeetings ==
    \A c \in Calls :
        (/\ Settled(c) /\ call[c].op \in MeetingsOps
         /\ call[c].response.status = 200 /\ HasErrorTitle(call[c].response.data))
        => pc[c] = "failed" /\ ~result[c].ok

C7_Witness ==
    \E c \in Calls :
        /\ pc[c] = "failed" /\ call[c].op = "getMeeting"
        /\ call[c].response.status = 200 /\ call[c].response.data = BodyHtmlErrorLower

----------------------------------------------------------------------------
(* The normalizers (checked under SpecParse).                              *)

NotSpace(tk) == tk.t # "ws"
NotProlog(tk) == tk.t \notin {"ws", "decl"}

\* the body is empty, does not begin with a tag marker, begins with a
\* doctype or html marker, or holds both <title> and the word Error
MalformedBody(body) ==
    \/ SelectSeq(body, NotSpace) = <<>>
    \/ SelectSeq(body, NotSpace)[1].t = "text"
    \/ SelectSeq(body, NotSpace)[1] \in {Doctype, Open("html"), Open("HTML")}
    \/ /\ \E i \in 1 .. Len(body) : body[i] = Open("title")
       /\ \E i \in 1 .. Len(body) : body[i].t = "text" /\ body[i].v \in ErrorTexts

\* C8: every normalizer routine fails on a malformed body.
C8_MalformedRejected ==
    (Applied /\ MalformedBody(parseIn.body)) => ~parseOut.ok

\* the body is <getmeetings> around a count field and nothing else
CountOnly(body) ==
    /\ Len(SelectSeq(body, NotProlog)) \in {3, 5}
    /\ Head(SelectSeq(body, NotProlog)) = Open("getmeetings")
    /\ SelectSeq(body, NotProlog)[2] \in {Open("meetingscount"), Empty("meetingscount")}
    /\ SelectSeq(body, NotProlog)[Len(SelectSeq(body, NotProlog))] = Close("getmeetings")
    /\ parseStringPromise(body).ok

\* C9: the meetings normalizer returns the empty sequence, and no error, for
\* a body whose root getmeetings holds only a count.
C9_CountOnlyIsEmpty ==
    (Applied /\ parseIn.routine = "parseMeetingsResponse" /\ CountOnly(parseIn.body))
        => parseOut = Returned(<<>>)

C9_Witness ==
    /\ Applied /\ parseIn.routine = "parseMeetingsResponse"
    /\ CountOnly(parseIn.body) /\ parseIn.body[1] # Decl

\* the root elements a routine reads
RootsOf(routine) ==
    CASE routine = "parseCouncillorsResponse" ->
            {"councillorsbyward", "councillorsbywardid", "councillorsbypostcode"}
      [] routine = "parseCommitteesResponse" -> {"committees"}
      [] routine = "parseMeetingsResponse" -> {"getmeetings", "getmeetingsbydate"}
      [] routine = "parseCalendarEventsResponse" -> {"calendarevents"}
      [] routine = "parseParishCouncilsResponse" -> {"parishcouncils"}
      [] routine = "parseElectionResultsResponse" -> {"electionresults"}
      [] routine = "parseWebCastMeetingsResponse" -> {"webcastmeetings", "getmeetings"}
      [] routine = "parseMpOrMepsAndWardsResponse" -> {"mpswards"}

\* the body is a well-formed XML document
WellFormed(body) == parseStringPromise(body).ok /\ parseStringPromise(body).val.k = "obj"
RootName(body) == parseStringPromise(body).val.kids[1].n

\* C10: on a well-formed XML body a routine never fails, and it returns
\* records only when the root is one it reads.
C10_UnrecognizedIsEmpty ==
    (Applied /\ WellFormed(parseIn.body)) =>
        /\ parseOut.ok
        /\ parseOut.value # <<>> => RootName(parseIn.body) \in RootsOf(parseIn.routine)

\* C10 as amended: the same for the well-formed bodies that are not an HTML
\* error page (no doctype or html marker at the start, not both a <title>
\* and the word Error).
C10_UnrecognizedIsEmptyUnlessHtml ==
    (Applied /\ WellFormed(parseIn.body) /\ ~MalformedBody(parseIn.body))
    => /\ parseOut.ok
       /\ parseOut.value # <<>> => RootName(parseIn.body) \in RootsOf(parseIn.routine)

C10_Witness ==
    /\ Applied /\ WellFormed(parseIn.body)
    /\ RootName(parseIn.body) \notin RootsOf(parseIn.routine)
    /\ ~MalformedBody(parseIn.body)
    /\ parseIn.routine = "parseCommitteesResponse"
    /\ parseOut = Returned(<<>>)

\* the paths, from the root, of the record elements a routine normalizes
RecordPaths(routine) ==
    CASE routine = "parseCouncillorsResponse" ->
            {<<r, "wards", "ward">> : r \in RootsOf(routine)}
      [] routine = "parseCommitteesResponse" -> {<<"committees", "committee">>}
      [] routine = "parseMeetingsResponse" ->
            {<<"getmeetings", "committee", "committeemeetings", "meeting">>,
             <<"getmeetingsbydate", "meetings", "meeting">>}
      [] routine = "parseCalendarEventsResponse" -> {<<"calendarevents", "event">>}
      [] routine = "parseParishCouncilsResponse" -> {<<"parishcouncils", "parishcouncil">>}
      [] routine = "parseElectionResultsResponse" -> {<<"electionresults", "electionresult">>}
      [] routine = "parseWebCastMeetingsResponse" ->
            {<<"webcastmeetings", "webcastmeeting">>, <<"getmeetings", "committee", "meeting">>}
      [] routine = "parseMpOrMepsAndWardsResponse" -> {<<"mpswards", "mps", "mp">>}

\* the number of elements of the text toks, from token i on, that lie at one
\* of the paths; stack holds the names of the elements open at token i
RECURSIVE ElementsAt(_, _, _, _)
ElementsAt(toks, i, stack, paths) ==
    IF i > Len(toks) THEN 0
    ELSE IF toks[i].t = "open"
    THEN (IF Append(stack, toks[i].v) \in paths THEN 1 ELSE 0)
            + ElementsAt(toks, i + 1, Append(stack, toks[i].v), paths)
    ELSE IF toks[i].t = "empty"
    THEN (IF Append(stack, toks[i].v) \in paths THEN 1 ELSE 0)
            + ElementsAt(toks, i + 1, stack, paths)
    ELSE IF toks[i].t = "close" /\ stack # <<>>
    THEN ElementsAt(toks, i + 1, SubSeq(stack, 1, Len(stack) - 1), paths)
    ELSE ElementsAt(toks, i + 1, stack, paths)

\* C11: on a well-formed body that is no error page, a routine returns as
\* many records as the body holds record elements at the paths it reads,
\* whether an element on the path occurs once or several times.
C11_OneRecordPerElement ==
    (Applied /\ WellFormed(parseIn.body) /\ ~MalformedBody(parseIn.body)) =>
        /\ parseOut.ok
        /\ Len(parseOut.value) = ElementsAt(parseIn.body, 1, <<>>, RecordPaths(parseIn.routine))

\* the fields the interface of a routine's records declares without "?"
RequiredFields(routine) ==
    CASE routine = "parseCouncillorsResponse" -> {"wardtitle", "councillorcount"}
      [] routine = "parseCommitteesResponse" -> {"committeeid", "committeetitle"}
      [] routine = "parseMeetingsResponse" -> {"meetingid", "meetingtitle", "meetingdate"}
      [] routine = "parseCalendarEventsResponse" -> {"eventid", "eventtitle", "eventdate"}
      [] routine = "parseParishCouncilsResponse" -> {"parishcouncilid", "parishcounciltitle"}
      [] routine = "parseElectionResultsResponse" ->
            {"electionid", "electiontitle", "electiondate"}
      [] routine = "parseWebCastMeetingsResponse" ->
            {"meetingid", "meetingtitle", "webcasturl", "meetingdate"}
      [] routine = "parseMpOrMepsAndWardsResponse" -> {"mpid", "mpname"}

\* the required fields of a councillor record
CouncillorFields == {"councillorid", "fullusername"}

\* C12: every record a routine returns has its required fields, and so has
\* every councillor record nested in a ward.
C12_RequiredFieldsPresent ==
    (Applied /\ parseOut.ok) =>
        \A i \in 1 .. Len(parseOut.value) :
            /\ \A f \in RequiredFields(parseIn.routine) :
                  /\ f \in DOMAIN parseOut.value[i]
                  /\ parseOut.value[i][f].k = "str"
            /\ parseIn.routine = "parseCouncillorsResponse" =>
                  \A j \in 1 .. Len(parseOut.value[i].councillor) :
                      \A f \in CouncillorFields :
                          Get(parseOut.value[i].councillor[j], f).k = "str"

----------------------------------------------------------------------------
(* The request of an operation (checked under SpecRequest).                *)

\* the first and the last day of a year, written out
YearStart == (2024 :> "2024-01-01") @@ (2025 :> "2025-01-01")
YearEnd == (2024 :> "2024-12-31") @@ (2025 :> "2025-12-31")

\* the caller passes no date at all
NoDatesGiven(b) == ~Truthy(b.date) /\ ~Truthy(b.fromDate) /\ ~Truthy(b.toDate)

\* C13: the request of a date-scoped operation called without dates carries
\* the range from the first to the last day of the current year; the
\* meetings operation carries it as sFromDate and sToDate.
C13_DefaultsToCurrentYear ==
    (buildOut.built /\ buildIn.op \in DateOps /\ NoDatesGiven(buildIn)) =>
        /\ buildOut.params.from = Str(YearStart[buildIn.currentYear])
        /\ buildOut.params.to = Str(YearEnd[buildIn.currentYear])
        /\ Len(buildOut.params.names) = 2
        /\ buildIn.op = "getMeetings" => buildOut.params.names = <<"sFromDate", "sToDate">>

C13_Witness ==
    /\ buildOut.built /\ buildIn.op = "getMeetings" /\ NoDatesGiven(buildIn)
    /\ buildIn.currentYear = 2024
    /\ buildOut.params = [names |-> <<"sFromDate", "sToDate">>, from |-> Str("2024-01-01"),
                          to |-> Str("2024-12-31")]

\* the URL without a "?WSDL" and a "/" at its end
Stripped(url) ==
    SubSeq(url, 1, CHOOSE n \in 0 .. Len(url) :
                      /\ \A i \in n + 1 .. Len(url) : url[i] \in {"?WSDL", "/"}
                      /\ n = 0 \/ url[n] \notin {"?WSDL", "/"})

\* scheme and host (with the port) of the URL
SchemeAndHost(scheme, url) ==
    <<scheme, "://", url[3]>> \o (IF Len(url) >= 4 /\ url[4] \in PortTokens THEN <<url[4]>> ELSE <<>>)

\* the endpoint of the operation named name at url, where a base rebuilt
\* from the host gets the scheme given
ExpectedEndpoint(url, name, scheme) ==
    (IF \E i \in 1 .. Len(Stripped(url)) : Stripped(url)[i] = ServicePath
     THEN Stripped(url)
     ELSE IF Stripped(url)[Len(Stripped(url))] = "/democracy"
     THEN Stripped(url) \o <<ServicePath>>
     ELSE SchemeAndHost(scheme, url) \o <<ServicePath>>) \o <<"/" \o name>>

\* C14: the endpoint is the stripped URL when it references the service
\* script, the stripped URL with the script appended when it ends in
\* /democracy, and else the input's own scheme and host with the script,
\* each followed by "/" and the operation name.
C14_EndpointKeepsScheme ==
    buildOut.built =>
        buildOut.endpoint =
            ExpectedEndpoint(buildIn.siteUrl, EndpointNames[buildIn.op], buildIn.siteUrl[1])

\* C14 as amended: the same, with https and the input's host (and port) in
\* the third case, whatever the input's scheme.
C14_EndpointForcesHttps ==
    buildOut.built =>
        buildOut.endpoint = ExpectedEndpoint(buildIn.siteUrl, EndpointNames[buildIn.op], "https")

\* an http URL with another path and a slash at its end was resolved
C14_Witness ==
    /\ buildOut.built
    /\ buildIn.siteUrl = <<"http", "://", "a.gov.uk", "/council", "/meetings", "/">>
    /\ buildOut.endpoint = <<"https", "://", "a.gov.uk", ServicePath, "/GetMeetings">>

----------------------------------------------------------------------------
(* CouncilMatcher (checked under SpecMatch).                               *)

Scored == matchOut.done /\ matchIn.fn = "calculateSimilarity"

\* the same character, ignoring case
SameLetter(c, d) == c = d \/ {c, d} = {"a", "A"} \/ {c, d} = {"b", "B"}
EqualIgnoringCase(s, t) ==
    Len(s) = Len(t) /\ \A i \in 1 .. Len(s) : SameLetter(s[i], t[i])
\* s contains sub, ignoring case
ContainsIgnoringCase(s, sub) ==
    \E i \in 0 .. Len(s) - Len(sub) : EqualIgnoringCase(SubSeq(s, i + 1, i + Len(sub)), sub)
EitherContains(s, t) == ContainsIgnoringCase(s, t) \/ ContainsIgnoringCase(t, s)

\* C15: the score of every pair of strings is a fraction between 0 and 1
\* with a denominator that is not zero; a pair that gets as far as the edit
\* distance has a longer string of length above zero, and two empty strings
\* score 1.
C15_ScoreInUnitInterval ==
    Scored =>
        /\ matchOut.score.den > 0
        /\ 0 <= matchOut.score.num /\ matchOut.score.num <= matchOut.score.den
        /\ ~EitherContains(matchIn.query, matchIn.councilName) =>
              (Len(matchIn.query) > 0 /\ Len(matchIn.councilName) > 0)
        /\ (matchIn.query = <<>> /\ matchIn.councilName = <<>>) =>
              SameScore(matchOut.score, Score(1, 1))

C15_Witness ==
    /\ Scored /\ matchIn.query = <<>> /\ matchIn.councilName = <<>>
    /\ SameScore(matchOut.score, Score(1, 1))

\* C16: the score is 1 for two strings equal ignoring case, and else 9/10
\* when one of the two contains the other ignoring case, whichever it is.
C16_TiersInPriorityOrder ==
    Scored =>
        IF EqualIgnoringCase(matchIn.query, matchIn.councilName)
        THEN SameScore(matchOut.score, Score(1, 1))
        ELSE EitherContains(matchIn.query, matchIn.councilName) =>
                SameScore(matchOut.score, Score(9, 10))

\* a query that contains the council name, in another case, scored 9/10
C16_Witness ==
    /\ Scored /\ matchIn.councilName = <<"A">> /\ matchIn.query = <<"b", "a">>
    /\ SameScore(matchOut.score, Score(9, 10))

WhitespaceOnly(query) == \A i \in 1 .. Len(query) : query[i] = " "
\* the score of council i of the list against the query
ScoreOf(i) == calculateSimilarity(matchIn.query, matchIn.councils[i])

\* C17: for a query that is not blank, findMatches returns the councils
\* that score at least minScore, each once and with its score, ordered so
\* that the scores never increase.
C17_MatchesAtLeastMinScoreSorted ==
    (matchOut.done /\ matchIn.fn = "findMatches" /\ ~WhitespaceOnly(matchIn.query)) =>
        /\ {matchOut.matches[k].council : k \in 1 .. Len(matchOut.matches)}
              = {i \in 1 .. Len(matchIn.councils) : Geq(ScoreOf(i), matchIn.minScore)}
        /\ \A k, l \in 1 .. Len(matchOut.matches) :
              k # l => matchOut.matches[k].council # matchOut.matches[l].council
        /\ \A k \in 1 .. Len(matchOut.matches) :
              SameScore(matchOut.matches[k].score, ScoreOf(matchOut.matches[k].council))
        /\ \A k \in 1 .. Len(matchOut.matches) - 1 :
              Geq(matchOut.matches[k].score, matchOut.matches[k + 1].score)

\* a council was left out, and a later council came before an earlier one
C17_Witness ==
    /\ matchOut.done /\ matchIn.fn = "findMatches"
    /\ Len(matchOut.matches) >= 2 /\ Len(matchOut.matches) < Len(matchIn.councils)
    /\ matchOut.matches[1].council > matchOut.matches[2].council
    /\ Gt(matchOut.matches[1].score, matchOut.matches[2].score)

BestMatched ==
    /\ matchOut.done /\ matchIn.fn = "findBestMatch"
    /\ ~WhitespaceOnly(matchIn.query) /\ matchIn.councils # <<>>

\* the query is a proper substring of a name of the list
ProperSubstringOfAName ==
    \E i \in 1 .. Len(matchIn.councils) :
        /\ ContainsIgnoringCase(matchIn.councils[i], matchIn.query)
        /\ ~EqualIgnoringCase(matchIn.councils[i], matchIn.query)
EqualsAName ==
    \E i \in 1 .. Len(matchIn.councils) : EqualIgnoringCase(matchIn.councils[i], matchIn.query)

\* the record returned is the first of the list with the highest score
BestIsFirstMaximum ==
    /\ Len(matchOut.best) = 1
    /\ SameScore(matchOut.best[1].score, ScoreOf(matchOut.best[1].council))
    /\ \A i \in 1 .. Len(matchIn.councils) : Geq(matchOut.best[1].score, ScoreOf(i))
    /\ \A i \in 1 .. matchOut.best[1].council - 1 : Gt(matchOut.best[1].score, ScoreOf(i))

\* C18: findBestMatch returns the first record with the highest score, and
\* for a query that is a proper substring of a name and equals no name the
\* record returned has score 9/10 and confidence high.
C18_BestIsFirstMaximumSubstringHigh ==
    BestMatched =>
        /\ BestIsFirstMaximum
        /\ (ProperSubstringOfAName /\ ~EqualsAName) =>
              /\ SameScore(matchOut.best[1].score, Score(9, 10))
              /\ matchOut.best[1].confidence = "high"

\* C18 as amended: findBestMatch returns the first record with the highest
\* score, and for a query that is a proper substring of a name the record
\* returned has a score of at least 9/10 and confidence high or exact.
C18_BestIsFirstMaximumSubstringAtLeastHigh ==
    BestMatched =>
        /\ BestIsFirstMaximum
        /\ ProperSubstringOfAName =>
              /\ Geq(matchOut.best[1].score, Score(9, 10))
              /\ matchOut.best[1].confidence \in {"high", "exact"}

\* two records tie at 9/10 for a query they contain, and the first is returned
C18_Witness ==
    /\ BestMatched /\ ProperSubstringOfAName /\ Len(matchOut.best) = 1
    /\ matchOut.best[1].council = 1 /\ matchOut.best[1].confidence = "high"
    /\ \E j \in 2 .. Len(matchIn.councils) : SameScore(ScoreOf(j), matchOut.best[1].score)

\* C19: for a query that is empty or white space only, findBestMatch
\* returns none and findMatches the empty sequence, and no record is scored.
C19_BlankQueryReturnsNothing ==
    (/\ matchOut.done /\ matchIn.fn \in {"findBestMatch", "findMatches"}
     /\ WhitespaceOnly(matchIn.query))
    => matchOut.best = <<>> /\ matchOut.matches = <<>> /\ matchOut.scored = 0

C19_Witness ==
    /\ matchOut.done /\ matchIn.fn = "findMatches" /\ matchIn.query = <<" ", " ">>
    /\ Len(matchIn.councils) = 2 /\ matchIn.minScore = Score(0, 1)
    /\ matchOut.matches = <<>>

\* the tier of a score: exact from 95/100, high from 80/100, medium from
\* 60/100, low below
Tier(score) ==
    CASE score.num * 100 >= 95 * score.den -> "exact"
      [] score.num * 100 < 95 * score.den /\ score.num * 100 >= 80 * score.den -> "high"
      [] score.num * 100 < 80 * score.den /\ score.num * 100 >= 60 * score.den -> "medium"
      [] score.num * 100 < 60 * score.den -> "low"

\* C20: the confidence of a score, and of every match returned, is the tier
\* of its score.
C20_ConfidenceIsTierOfScore ==
    matchOut.done =>
        /\ matchIn.fn = "getConfidence" => matchOut.confidence = Tier(matchIn.score)
        /\ \A k \in 1 .. Len(matchOut.matches) :
              matchOut.matches[k].confidence = Tier(matchOut.matches[k].score)
        /\ \A k \in 1 .. Len(matchOut.best) :
              matchOut.best[k].confidence = Tier(matchOut.best[k].score)

\* a score on the boundary of the highest tier
C20_Witness ==
    /\ matchOut.done /\ matchIn.fn = "getConfidence"
    /\ SameScore(matchIn.score, Score(19, 20)) /\ matchOut.confidence = "exact"

----------------------------------------------------------------------------
(* The entries of the limiter (checked under Spec).                        *)

\* the time stored for the site of a URL, 0 when none is stored
EntryOf(limiter, url) == IF hostname(url) \in DOMAIN limiter THEN limiter[hostname(url)] ELSE 0

\* the step admits call c: checkRateLimit records the time and returns
Admits(c) == pc[c] # "inflight" /\ pc'[c] = "inflight"

\* no stored time decreases in the step
EntriesNeverDecrease ==
    /\ DOMAIN rateLimiter \subseteq DOMAIN rateLimiter'
    /\ \A k \in DOMAIN rateLimiter : rateLimiter'[k] >= rateLimiter[k]

\* C21: in every step the time stored for an origin does not decrease, and
\* the admission of a call leaves the time stored for every origin (scheme,
\* host and port) other than the call's own as it was.
C21_OriginTimestampsNeverDecrease ==
    [][/\ EntriesNeverDecrease
       /\ \A c \in Calls : Admits(c) =>
             \A url \in GateUrls :
                 origin(url) # origin(call'[c].siteUrl) =>
                     EntryOf(rateLimiter', url) = EntryOf(rateLimiter, url)]_vars

\* C21 as amended: in every step the time stored for a hostname does not
\* decrease, and the admission of a call leaves the time stored for every
\* hostname other than the call's own as it was.
C21_HostnameTimestampsNeverDecrease ==
    [][/\ EntriesNeverDecrease
       /\ \A c \in Calls : Admits(c) =>
             /\ EntryOf(rateLimiter', call'[c].siteUrl) >= EntryOf(rateLimiter, call'[c].siteUrl)
             /\ \A url \in GateUrls :
                   hostname(url) # hostname(call'[c].siteUrl) =>
                       EntryOf(rateLimiter', url) = EntryOf(rateLimiter, url)]_vars

\* the time stored for a.gov.uk was replaced by a later one while the time
\* stored for b.gov.uk stayed that of the request to b.gov.uk
C21_Witness ==
    /\ EntryOf(rateLimiter, UrlA) > EntryOf(rateLimiter, UrlB)
    /\ \E c \in Dispatched :
          /\ hostname(requests[c][1].siteUrl) = hostname(UrlA)
          /\ requests[c][1].time < EntryOf(rateLimiter, UrlA)
    /\ \E d \in Dispatched :
          /\ hostname(requests[d][1].siteUrl) = hostname(UrlB)
          /\ requests[d][1].time = EntryOf(rateLimiter, UrlB)

----------------------------------------------------------------------------
(* The date bounds of a request (checked under SpecRequest).               *)

\* the operations with a date range and no single date
RangeOps == {"getMeetings", "getWebCastMeetings", "getCalendarEvents"}

\* a date that is there: a string that is not empty
DateGiven(d) == d.k = "str" /\ d.s # ""

----------------------------------------------------------------------------
(* The score 1 (checked under SpecMatch).                                  *)

One == Score(1, 1)

\* the pieces of a string between its runs of white space
Pieces(s) == split(s)

\* neither string contains the other, the query has at least as many pieces
\* as the name, and every piece of the query contains a piece of the name or
\* is contained in one, ignoring case
AllWordsMatched(query, name) ==
    /\ ~EitherContains(query, name)
    /\ Len(Pieces(query)) >= Len(Pieces(name))
    /\ \A i \in 1 .. Len(Pieces(query)) :
          \E j \in 1 .. Len(Pieces(name)) : EitherContains(Pieces(query)[i], Pieces(name)[j])

\* the name of the council findBestMatch returned
BestName == matchIn.councils[matchOut.best[1].council]

\* C23: a query and a council name that differ ignoring case score less
\* than 1, and findBestMatch returns a record with score 1 only when its
\* name equals the query ignoring case.
C23_ScoreOneOnlyForEqualName ==
    /\ (Scored /\ ~EqualIgnoringCase(matchIn.query, matchIn.councilName)) =>
          Gt(One, matchOut.score)
    /\ (BestMatched /\ Len(matchOut.best) = 1 /\ SameScore(matchOut.best[1].score, One)) =>
          EqualIgnoringCase(matchIn.query, BestName)

\* C23 as amended: the score is 1 exactly when the query equals the council
\* name ignoring case or all its words match words of the name, and
\* findBestMatch returns a record with score 1 only in these two cases.
C23_ScoreOneOnlyForEqualNameOrAllWordsMatched ==
    /\ Scored =>
          (SameScore(matchOut.score, One) <=>
              \/ EqualIgnoringCase(matchIn.query, matchIn.councilName)
              \/ AllWordsMatched(matchIn.query, matchIn.councilName))
    /\ (BestMatched /\ Len(matchOut.best) = 1 /\ SameScore(matchOut.best[1].score, One)) =>
          \/ EqualIgnoringCase(matchIn.query, BestName)
          \/ AllWordsMatched(matchIn.query, BestName)

\* the query "a b" scored 1 against the name "Ab"
C23_Witness ==
    /\ Scored /\ matchIn.query = <<"a", " ", "b">> /\ matchIn.councilName = <<"A", "b">>
    /\ SameScore(matchOut.score, One)

----------------------------------------------------------------------------
(* The limiter with timers that fire.                                      *)

\* a call made while the clock still has the time for its wait ahead
InvokeEarly(c, op, siteUrl, param) ==
    /\ clock + rateLimitMs <= MaxClock
    /\ Invoke(c, op, siteUrl, param)

\* the sites of the calls: two hostnames
FairUrls == {UrlA, UrlB}

NextFair ==
    \/ Tick
    \/ \E c \in Calls, op \in GateOps, siteUrl \in FairUrls :
         InvokeEarly(c, op, siteUrl, "value")
    \/ \E c \in Calls : Wake(c)

\* time passes, and the callback of a timer runs once its time has come
SpecFair ==
    /\ Init /\ [][NextFair]_vars
    /\ WF_vars(Tick)
    /\ \A c \in Calls : WF_vars(Wake(c))

\* C24: a call that sleeps in checkRateLimit is admitted in the end; the
\* timer it sleeps on is set for at most rateLimitMs, an admitted call
\* never sleeps again, and at its admission the entry of its site holds the
\* time of the admission.
C24_AdmissionCompletes ==
    /\ \A c \in Calls : (pc[c] = "sleeping") ~> (pc[c] = "inflight")
    /\ [][\A c \in Calls :
            /\ pc'[c] = "sleeping" =>
                  /\ pc[c] \in {"idle", "sleeping"}
                  /\ call'[c].wakeAt - call'[c].now \in 1 .. rateLimitMs
            /\ pc[c] = "inflight" => pc'[c] = "inflight"
            /\ Admits(c) => EntryOf(rateLimiter', call'[c].siteUrl) = clock']_vars

\* a call that slept is admitted while another call to its site still sleeps
C24_Witness ==
    \E c, d \in Calls :
        /\ pc[c] = "inflight" /\ Waited(c)
        /\ EntryOf(rateLimiter, call[c].siteUrl) = SentAt(c)
        /\ pc[d] = "sleeping" /\ SameHostname(c, d)

====
